---- MODULE Spec2Model ----
(***************************************************************************)
(* Verification model of the weaver-bird resource-pack core                *)
(* (src-tauri/src/util): block model resolution with pack -> vanilla       *)
(* fallback, parent merging, texture-variable resolution and the asset     *)
(* indexer.                                                                *)
(*                                                                         *)
(* Strings are sequences of one-character strings, so that prefix tests,   *)
(* splitting and trimming are computed the way the Rust code computes      *)
(* them.  Option<T> is a sequence of length 0 (None) or 1 (Some).          *)
(* A HashMap is a function over its key set.                               *)
(***************************************************************************)
EXTENDS Integers, Sequences, FiniteSets, TLC

VARIABLES
    \* ---- resolve_block_model (block_models.rs) ----
    pack,            \* the active PackMeta and its files
    vanilla_pack,    \* the baseline PackMeta and its files
    model_id,        \* the requested model id
    pc,              \* "idle" | "call" | "return" | "done"
    cur,             \* arguments of the pending resolve_block_model_with_depth call
    stack,           \* frames waiting for their parent: [model_id, depth, model]
    ret,             \* value being returned by the innermost finished call
    result,          \* Option<AppResult<BlockModel>> of resolve_block_model
    loaded,          \* history: every read_block_model_with_fallback call made
    \* ---- merge_models (block_models.rs) ----
    mpc,             \* "idle" | "start" | "merged"
    parent,          \* BlockModel
    child,           \* BlockModel
    merged,          \* Option<BlockModel>
    \* ---- resolve_textures (block_models.rs) ----
    tpc,             \* "idle" | "start" | "resolved"
    model,           \* the BlockModel whose textures are resolved
    resolved,        \* HashMap<String, String> returned
    \* ---- extract_asset_id (asset_indexer.rs) ----
    apc,             \* "idle" | "start" | "extracted"
    file_path,       \* the input path
    asset_id,        \* Option<String> returned
    \* ---- index_assets (asset_indexer.rs) ----
    ipc,             \* "idle" | "loop" | "done"
    packs,           \* the input pack list
    i,               \* index of the next pack to scan (0-based, as enumerate())
    assets_map,      \* HashMap<String, AssetRecord>
    providers,       \* HashMap<String, Vec<String>>
    index_result,    \* Option<Result<(Vec<AssetRecord>, providers)>>
    \* ---- extract_labels (asset_indexer.rs) ----
    lpc,             \* "idle" | "start" | "extracted"
    label_id,        \* the input asset id
    label_vec,       \* Vec<String> returned (labels)
    \* ---- get_default_model (blockstates.rs) ----
    bpc,             \* "idle" | "start" | "chosen"
    blockstate,      \* the Blockstate; variants in HashMap iteration order
    default_model,   \* Option<String> returned
    \* ---- read_block_model / read_blockstate (one read of a named entry) ----
    rpc,             \* "idle" | "start" | "read"
    read_pack,       \* the PackMeta read from, with its files
    read_id,         \* the model id or block id asked for
    read_call,       \* the function called
    read_result,     \* Option<AppResult<_>> returned
    \* ---- extract_vanilla_textures / initialize_vanilla_textures (vanilla_textures.rs) ----
    epc,             \* "idle" | "clean" | "parallel" | "done"
    jar,             \* the Minecraft JAR: found, opens, entries of its index
    cache,           \* the files under the cache root: path -> content
    cache_at_call,   \* history: cache when the running call was entered
    calls,           \* number of calls made so far
    files_to_extract,\* Vec<(usize, String)> of the first pass
    status,          \* per work item: "pending" | "extracted" | "failed"
    effects,         \* history: file-system operations of the running call
    written,         \* history: (work item, output path) of every File::create
    extract_result,  \* Option<Result<PathBuf>> of the running call
    prev_result,     \* Option<Result<PathBuf>> of the call before
    \* ---- texture_id_to_block_id (blockstates.rs) ----
    kpc,             \* "idle" | "start" | "mapped"
    texture_id,      \* the input texture id
    block_id_result, \* Option<String> returned
    \* ---- find_latest_version_jar (vanilla_textures.rs) ----
    fpc,             \* "idle" | "loop" | "done"
    search_paths,    \* the launcher roots searched, in order, with their contents
    path_idx,        \* number of search paths tried so far
    find_result,     \* Option<Result<PathBuf>> returned
    \* ---- concurrent callers of initialize_vanilla_textures / extract_vanilla_textures ----
    callers,         \* per caller: its position, its work list, its workers, its result
    observed         \* history: the returns made on seeing the marker

resolveVars == <<pack, vanilla_pack, model_id, pc, cur, stack, ret, result, loaded>>
mergeVars   == <<mpc, parent, child, merged>>
texVars     == <<tpc, model, resolved>>
idVars      == <<apc, file_path, asset_id>>
indexVars   == <<ipc, packs, i, assets_map, providers, index_result>>
labelVars   == <<lpc, label_id, label_vec>>
blockstateVars== <<bpc, blockstate, default_model>>
readVars    == <<rpc, read_pack, read_id, read_call, read_result>>
cacheVars   == <<epc, jar, cache, cache_at_call, calls, files_to_extract, status, effects, written, extract_result, prev_result>>
blockIdVars == <<kpc, texture_id, block_id_result>>
findVars    == <<fpc, search_paths, path_idx, find_result>>
callerVars  == <<callers, observed>>
vars        == <<resolveVars, mergeVars, texVars, idVars, indexVars, labelVars, blockstateVars, readVars, cacheVars, blockIdVars, findVars, callerVars>>

----------------------------------------------------------------------------
(* Option, Result and string helpers                                       *)

None == <<>>
Some(x) == <<x>>
is_some(o) == Len(o) = 1
is_none(o) == Len(o) = 0
unwrap(o) == o[1]

Ok(v)  == [ok |-> TRUE,  val |-> <<v>>, err |-> <<>>]
Err(e) == [ok |-> FALSE, val |-> <<>>,  err |-> <<e>>]

EmptyMap == [k \in {} |-> <<>>]

starts_with(s, p) == Len(s) >= Len(p) /\ SubSeq(s, 1, Len(p)) = p
ends_with(s, p)   == Len(s) >= Len(p) /\ SubSeq(s, Len(s) - Len(p) + 1, Len(s)) = p
contains(s, c)    == \E n \in 1..Len(s) : s[n] = c
Skip(s, n)        == SubSeq(s, n + 1, Len(s))

\* str::find(c): 0-based index of the first c, None if there is none
find(s, c) ==
    IF contains(s, c)
    THEN Some((CHOOSE n \in 1..Len(s) : s[n] = c /\ \A m \in 1..(n-1) : s[m] # c) - 1)
    ELSE None

\* str::rfind(c): 0-based index of the last c, None if there is none
rfind(s, c) ==
    IF contains(s, c)
    THEN Some((CHOOSE n \in 1..Len(s) : s[n] = c /\ \A m \in (n+1)..Len(s) : s[m] # c) - 1)
    ELSE None

\* str::split(c): the pieces between every occurrence of c
RECURSIVE split(_, _)
split(s, c) ==
    LET at == find(s, c) IN
    IF is_none(at) THEN <<s>>
    ELSE <<SubSeq(s, 1, unwrap(at))>> \o split(Skip(s, unwrap(at) + 1), c)

\* str::splitn(2, c): at most two pieces, split at the first c
splitn2(s, c) ==
    LET at == find(s, c) IN
    IF is_none(at) THEN <<s>>
    ELSE <<SubSeq(s, 1, unwrap(at)), Skip(s, unwrap(at) + 1)>>

\* str::trim_start_matches(c): every leading c removed
RECURSIVE trim_start_matches(_, _)
trim_start_matches(s, c) ==
    IF Len(s) > 0 /\ s[1] = c THEN trim_start_matches(Tail(s), c) ELSE s

MINECRAFT == <<"m","i","n","e","c","r","a","f","t">>
ASSETS_DIR == <<"a","s","s","e","t","s","/">>
MODELS_DIR == <<"/","m","o","d","e","l","s","/">>
DOT_JSON == <<".","j","s","o","n">>

----------------------------------------------------------------------------
(* error.rs                                                                *)

validation(message) == [code |-> "VALIDATION_ERROR", message |-> message]
io(message)         == [code |-> "IO_ERROR", message |-> message]

----------------------------------------------------------------------------
(* block_models.rs: reading a model                                         *)

BlockModel(p, t, e, ao) ==
    [parent |-> p, textures |-> t, elements |-> e, ambientocclusion |-> ao]

NoModel == BlockModel(None, None, None, None)

\* A file of a pack: parsable model JSON, text that is no model, bytes that
\* are no UTF-8, or an entry whose read fails.
ModelFile(m) == [kind |-> "model", model |-> m]
Malformed    == [kind |-> "malformed", model |-> NoModel]
NotUtf8      == [kind |-> "not_utf8", model |-> NoModel]
Unreadable   == [kind |-> "unreadable", model |-> NoModel]

PackMeta(id, is_zip, opens, files) ==
    [id |-> id, is_zip |-> is_zip, opens |-> opens, files |-> files]

NoPack == PackMeta("", FALSE, FALSE, EmptyMap)

normalize_model_id(id) ==
    IF contains(id, ":") THEN id ELSE MINECRAFT \o <<":">> \o id

model_id_to_path(id) ==
    LET parts == split(id, ":") IN
    IF Len(parts) = 2
    THEN ASSETS_DIR \o parts[1] \o MODELS_DIR \o parts[2] \o DOT_JSON
    ELSE ASSETS_DIR \o MINECRAFT \o MODELS_DIR \o id \o DOT_JSON

\* zip.rs extract_zip_entry: every failure is an anyhow error
extract_zip_entry(p, entry_path) ==
    IF ~p.opens THEN Err("Failed to open zip")
    ELSE IF entry_path \notin DOMAIN p.files THEN Err("Entry not found in zip")
    ELSE IF p.files[entry_path].kind = "unreadable" THEN Err("Failed to read zip entry")
    ELSE Ok(p.files[entry_path])

\* serde_json::from_str of the contents read
parse_model(entry) ==
    IF entry.kind = "model" THEN Ok(entry.model)
    ELSE Err(validation("Invalid model JSON"))

read_block_model(p, id) ==
    LET relative_path == model_id_to_path(normalize_model_id(id)) IN
    IF p.is_zip
    THEN LET bytes == extract_zip_entry(p, relative_path) IN
         IF ~bytes.ok THEN Err(validation("Model not found in ZIP"))
         ELSE IF unwrap(bytes.val).kind = "not_utf8"
              THEN Err(validation("Invalid UTF-8 in model"))
              ELSE parse_model(unwrap(bytes.val))
    ELSE IF ~p.opens \/ relative_path \notin DOMAIN p.files
         THEN Err(validation("Model not found"))
         ELSE IF p.files[relative_path].kind \in {"unreadable", "not_utf8"}
              THEN Err(io("Failed to read model file"))
              ELSE parse_model(p.files[relative_path])

read_block_model_with_fallback(p, id, vanilla) ==
    LET from_pack == read_block_model(p, id) IN
    IF from_pack.ok THEN from_pack
    ELSE read_block_model(vanilla, id)

----------------------------------------------------------------------------
(* block_models.rs: merge_models                                           *)

\* Faulty variant of extend: an existing entry is kept instead of overwritten
extend_keeps_existing(p, c) ==
    [k \in (DOMAIN p) \cup (DOMAIN c) |-> IF k \in DOMAIN p THEN p[k] ELSE c[k]]

\* HashMap::extend: entries of c are inserted over those of p
extend(p, c) ==
    [k \in (DOMAIN p) \cup (DOMAIN c) |-> IF k \in DOMAIN c THEN c[k] ELSE p[k]]

merge_textures(p, c) ==
    IF is_some(c.textures)
    THEN IF is_some(p.textures)
         THEN Some(extend(unwrap(p.textures), unwrap(c.textures)))
         ELSE c.textures
    ELSE p.textures

\* Faulty variant of merge_elements: the child's elements are appended to the parent's
merge_elements_appends(p, c) ==
    IF is_some(c.elements) /\ is_some(p.elements)
    THEN Some(unwrap(p.elements) \o unwrap(c.elements))
    ELSE IF is_some(c.elements) THEN c.elements ELSE p.elements

merge_elements(p, c) ==
    IF is_some(c.elements) THEN c.elements ELSE p.elements

\* Faulty variant of merge_ambientocclusion: the parent's flag wins when it has one
merge_ambientocclusion_parent_wins(p, c) ==
    IF is_some(p.ambientocclusion) THEN p.ambientocclusion ELSE c.ambientocclusion

merge_ambientocclusion(p, c) ==
    IF is_some(c.ambientocclusion) THEN c.ambientocclusion ELSE p.ambientocclusion

\* Faulty variant of merge_parent: the child's parent link survives the merge
merge_parent_keeps_child(p, c) == c.parent

merge_parent(p, c) == None

merge_models(p, c) ==
    BlockModel(merge_parent(p, c), merge_textures(p, c),
               merge_elements(p, c), merge_ambientocclusion(p, c))

----------------------------------------------------------------------------
(* block_models.rs: resolve_block_model, one step per call / return of     *)
(* resolve_block_model_with_depth                                          *)

MAX_DEPTH == 20

Frame(id, depth, m) == [model_id |-> id, depth |-> depth, model |-> m]
CallArgs(id, depth) == [model_id |-> id, depth |-> depth]
Load(id, depth, outcome) == [model_id |-> id, depth |-> depth, outcome |-> outcome]

\* Faulty variant of too_deep: depth MAX_DEPTH is refused already
too_deep_at_limit(depth) == depth >= MAX_DEPTH

\* if depth > MAX_DEPTH
too_deep(depth) == depth > MAX_DEPTH

depth_exceeded(id) ==
    validation("Model parent chain too deep (possible circular reference)")

\* depth > MAX_DEPTH: the error is returned through every waiting frame by `?`
CallDepthExceeded ==
    /\ pc = "call"
    /\ too_deep(cur.depth)
    /\ result' = Some(Err(depth_exceeded(cur.model_id)))
    /\ pc' = "done"
    /\ stack' = <<>>
    /\ UNCHANGED <<pack, vanilla_pack, model_id, cur, ret, loaded>>
    /\ UNCHANGED <<mergeVars, texVars, idVars, indexVars, labelVars, blockstateVars, readVars, cacheVars, blockIdVars, findVars, callerVars>>

\* read_block_model_with_fallback fails: `?` returns the error to the caller
CallLoadFails ==
    /\ pc = "call"
    /\ ~too_deep(cur.depth)
    /\ LET r == read_block_model_with_fallback(pack, cur.model_id, vanilla_pack) IN
       /\ ~r.ok
       /\ loaded' = Append(loaded, Load(cur.model_id, cur.depth, r))
       /\ result' = Some(r)
    /\ pc' = "done"
    /\ stack' = <<>>
    /\ UNCHANGED <<pack, vanilla_pack, model_id, cur, ret>>
    /\ UNCHANGED <<mergeVars, texVars, idVars, indexVars, labelVars, blockstateVars, readVars, cacheVars, blockIdVars, findVars, callerVars>>

\* the model has a parent: recurse with depth + 1
CallParent ==
    /\ pc = "call"
    /\ ~too_deep(cur.depth)
    /\ LET r == read_block_model_with_fallback(pack, cur.model_id, vanilla_pack) IN
       /\ r.ok
       /\ is_some(unwrap(r.val).parent)
       /\ loaded' = Append(loaded, Load(cur.model_id, cur.depth, r))
       /\ stack' = Append(stack, Frame(cur.model_id, cur.depth, unwrap(r.val)))
       /\ cur' = CallArgs(unwrap(unwrap(r.val).parent), cur.depth + 1)
    /\ UNCHANGED <<pack, vanilla_pack, model_id, pc, ret, result>>
    /\ UNCHANGED <<mergeVars, texVars, idVars, indexVars, labelVars, blockstateVars, readVars, cacheVars, blockIdVars, findVars, callerVars>>

\* no parent: the model is returned as loaded
CallBase ==
    /\ pc = "call"
    /\ ~too_deep(cur.depth)
    /\ LET r == read_block_model_with_fallback(pack, cur.model_id, vanilla_pack) IN
       /\ r.ok
       /\ is_none(unwrap(r.val).parent)
       /\ loaded' = Append(loaded, Load(cur.model_id, cur.depth, r))
       /\ ret' = unwrap(r.val)
    /\ pc' = "return"
    /\ UNCHANGED <<pack, vanilla_pack, model_id, cur, stack, result>>
    /\ UNCHANGED <<mergeVars, texVars, idVars, indexVars, labelVars, blockstateVars, readVars, cacheVars, blockIdVars, findVars, callerVars>>

\* Faulty variant of merge_into_caller: parent and child are passed the wrong way round
merge_into_caller_swapped(parent_model, frame) == merge_models(frame.model, parent_model)

\* model = merge_models(parent_model, model)
merge_into_caller(parent_model, frame) == merge_models(parent_model, frame.model)

\* the caller merges the resolved parent into its own model and returns it
ReturnMerge ==
    /\ pc = "return"
    /\ stack # <<>>
    /\ ret' = merge_into_caller(ret, stack[Len(stack)])
    /\ stack' = SubSeq(stack, 1, Len(stack) - 1)
    /\ UNCHANGED <<pack, vanilla_pack, model_id, pc, cur, result, loaded>>
    /\ UNCHANGED <<mergeVars, texVars, idVars, indexVars, labelVars, blockstateVars, readVars, cacheVars, blockIdVars, findVars, callerVars>>

\* the depth-0 call returns to resolve_block_model
ReturnFinish ==
    /\ pc = "return"
    /\ stack = <<>>
    /\ result' = Some(Ok(ret))
    /\ pc' = "done"
    /\ UNCHANGED <<pack, vanilla_pack, model_id, cur, stack, ret, loaded>>
    /\ UNCHANGED <<mergeVars, texVars, idVars, indexVars, labelVars, blockstateVars, readVars, cacheVars, blockIdVars, findVars, callerVars>>

ResolveIdle ==
    /\ pack = NoPack /\ vanilla_pack = NoPack /\ model_id = <<>>
    /\ pc = "idle" /\ cur = CallArgs(<<>>, 0) /\ stack = <<>>
    /\ ret = NoModel /\ result = None /\ loaded = <<>>
MergeIdle == mpc = "idle" /\ parent = NoModel /\ child = NoModel /\ merged = None
TexIdle == tpc = "idle" /\ model = NoModel /\ resolved = EmptyMap
IdIdle == apc = "idle" /\ file_path = <<>> /\ asset_id = None
IndexIdle ==
    /\ ipc = "idle" /\ packs = <<>> /\ i = 0
    /\ assets_map = EmptyMap /\ providers = EmptyMap /\ index_result = None
LabelsIdle ==
    lpc = "idle" /\ label_id = <<>> /\ label_vec = <<>>
BlockstateIdle ==
    /\ bpc = "idle" /\ default_model = <<>>
    /\ blockstate = [variants |-> <<>>, multipart |-> <<>>]
ReadIdle ==
    /\ rpc = "idle" /\ read_pack = NoPack /\ read_id = <<>>
    /\ read_call = "" /\ read_result = None
CacheIdle ==
    /\ epc = "idle" /\ jar = [found |-> FALSE, opens |-> FALSE, entries |-> <<>>]
    /\ cache = EmptyMap /\ cache_at_call = EmptyMap /\ calls = 0
    /\ files_to_extract = <<>> /\ status = <<>> /\ effects = {} /\ written = {}
    /\ extract_result = None /\ prev_result = None
BlockIdIdle ==
    /\ kpc = "idle" /\ texture_id = <<>> /\ block_id_result = None
FindIdle ==
    /\ fpc = "idle" /\ search_paths = <<>> /\ path_idx = 0 /\ find_result = None
CallersIdle ==
    /\ callers = <<>> /\ observed = {}

----------------------------------------------------------------------------
(* Inputs of resolve_block_model                                           *)

ALL == <<"a","l","l">>
SIDE == <<"s","i","d","e">>
DIRT == <<"d","i","r","t">>
STONE == <<"s","t","o","n","e">>

Ids == {"a", "b", "c"}
Qualified(x) == MINECRAFT \o <<":", x>>
PathOf(x) == model_id_to_path(Qualified(x))
NextId(x) == IF x = "a" THEN "b" ELSE "c"

Absent == [kind |-> "absent", model |-> NoModel]

\* files chosen per id; an id mapped to Absent has no file
FilesOf(sel) ==
    [q \in {PathOf(x) : x \in {y \in Ids : sel[y] # Absent}} |->
        sel[CHOOSE x \in Ids : PathOf(x) = q]]

\* Model graphs: every id may be absent, malformed (active pack only) or a
\* model whose parent is none, the next id, or minecraft:a (which closes a
\* cycle); the two sources' copies differ in their texture table.
ParentChoices(x) == {None, Some(<<NextId(x)>>), Some(Qualified("a"))}
GraphFile(x, tex) ==
    {ModelFile(BlockModel(p, Some(tex), None, None)) : p \in ParentChoices(x)}
PackChoices(x) == {Absent, Malformed} \cup GraphFile(x, (ALL :> DIRT))
VanillaChoices(x) == {Absent} \cup GraphFile(x, (ALL :> STONE))

InitGraph ==
    /\ \E sel \in [Ids -> UNION {PackChoices(x) : x \in Ids}] :
          /\ \A x \in Ids : sel[x] \in PackChoices(x)
          /\ pack = PackMeta("pack", TRUE, TRUE, FilesOf(sel))
    /\ \E sel \in [Ids -> UNION {VanillaChoices(x) : x \in Ids}] :
          /\ \A x \in Ids : sel[x] \in VanillaChoices(x)
          /\ vanilla_pack = PackMeta("minecraft:vanilla", FALSE, TRUE, FilesOf(sel))
    /\ model_id \in {<<"a">>, Qualified("a")}

\* Chains a -> b -> c with the requested model in the active pack and its
\* ancestors in the baseline; the texture tables vary.
TexChoices ==
    {None, Some(EmptyMap), Some((ALL :> DIRT)), Some((ALL :> STONE)),
     Some((SIDE :> STONE)), Some((ALL :> DIRT) @@ (SIDE :> DIRT))}

InitChain ==
    /\ \E ta \in TexChoices, tb \in TexChoices, tc \in TexChoices, z \in BOOLEAN :
          /\ pack = PackMeta("pack", z, TRUE,
                (PathOf("a") :> ModelFile(BlockModel(Some(<<"b">>), ta, None, None))))
          /\ vanilla_pack = PackMeta("minecraft:vanilla", FALSE, TRUE,
                (PathOf("b") :> ModelFile(BlockModel(Some(Qualified("c")), tb, None, None)))
                @@ (PathOf("c") :> ModelFile(BlockModel(None, tc, None, None))))
    /\ model_id = <<"a">>

\* Acyclic chains m00 -> m01 -> ... of up to MaxChainModels models, all in
\* the active pack; the ambient-occlusion flags of the three models nearest
\* the requested one vary.
MaxChainModels == 23

InitLongChain ==
    LET digits == <<"0","1","2","3","4","5","6","7","8","9">>
        id_of(n) == <<"m", digits[(n \div 10) + 1], digits[(n % 10) + 1]>>
        path_of(n) == model_id_to_path(normalize_model_id(id_of(n))) IN
    /\ \E len \in 1..MaxChainModels, ao \in [0..2 -> {None, Some(TRUE), Some(FALSE)}] :
          /\ \A n \in 0..2 : n >= len => ao[n] = None
          /\ pack = PackMeta("pack", TRUE, TRUE,
                [q \in {path_of(n) : n \in 0..(len - 1)} |->
                    LET n == CHOOSE k \in 0..(len - 1) : path_of(k) = q IN
                    ModelFile(BlockModel(IF n = len - 1 THEN None ELSE Some(id_of(n + 1)),
                                         None, None, IF n <= 2 THEN ao[n] ELSE None))])
    /\ vanilla_pack = PackMeta("minecraft:vanilla", FALSE, TRUE, EmptyMap)
    /\ model_id = <<"m", "0", "0">>

InitResolve ==
    /\ InitGraph \/ InitChain \/ InitLongChain
    /\ pc = "call"
    /\ cur = CallArgs(model_id, 0)
    /\ stack = <<>>
    /\ ret = NoModel
    /\ result = None
    /\ loaded = <<>>
    /\ MergeIdle /\ TexIdle /\ IdIdle /\ IndexIdle /\ LabelsIdle /\ BlockstateIdle /\ ReadIdle /\ CacheIdle /\ BlockIdIdle /\ FindIdle /\ CallersIdle

NextResolve ==
    \/ CallDepthExceeded
    \/ CallLoadFails
    \/ CallParent
    \/ CallBase
    \/ ReturnMerge
    \/ ReturnFinish

SpecResolve == InitResolve /\ [][NextResolve]_vars

----------------------------------------------------------------------------
(* Claims about resolve_block_model                                        *)

Done == pc = "done" /\ is_some(result)
Resolved == Done /\ unwrap(result).ok
Failed == Done /\ ~unwrap(result).ok

\* a source holds a usable copy of the model
HasModel(p, id) ==
    LET q == model_id_to_path(normalize_model_id(id)) IN
    q \in DOMAIN p.files /\ p.files[q].kind = "model"
CopyOf(p, id) == p.files[model_id_to_path(normalize_model_id(id))].model

\* the model a load is specified to yield: the pack's copy, else the baseline's
SpecifiedCopy(id) ==
    IF HasModel(pack, id) THEN Some(CopyOf(pack, id))
    ELSE IF HasModel(vanilla_pack, id) THEN Some(CopyOf(vanilla_pack, id))
    ELSE None

\* the parent chain from id does not end within fuel hops
RECURSIVE ChainUnending(_, _)
ChainUnending(id, fuel) ==
    LET m == SpecifiedCopy(id) IN
    /\ is_some(m)
    /\ is_some(unwrap(m).parent)
    /\ (fuel = 0 \/ ChainUnending(unwrap(unwrap(m).parent), fuel - 1))
Cyclic(id) ==
    ChainUnending(id, Cardinality((DOMAIN pack.files) \cup (DOMAIN vanilla_pack.files)))

\* C1: every model loaded while resolving is the active pack's copy when the
\* pack has it, otherwise the baseline copy; when neither source has it the
\* whole call fails with a NotFound-kind error and returns no model.
C1_FallbackThenNotFound ==
    \A n \in 1..Len(loaded) :
        LET l == loaded[n]
            m == SpecifiedCopy(l.model_id) IN
        IF is_some(m)
        THEN l.outcome = Ok(unwrap(m))
        ELSE /\ ~l.outcome.ok
             /\ unwrap(l.outcome.err).code = "NOT_FOUND_ERROR"
             /\ Failed
             /\ unwrap(result) = l.outcome

\* C2: a cyclic parent chain ends after a bounded number of loads with a
\* depth-exceeded error whose kind differs from the validation and
\* not-found kinds.
C2_CycleDepthExceeded ==
    Cyclic(model_id) =>
        /\ Len(loaded) <= MAX_DEPTH + 1
        /\ Done =>
            /\ ~unwrap(result).ok
            /\ unwrap(unwrap(result).err).code \notin
                  {"VALIDATION_ERROR", "NOT_FOUND_ERROR",
                   unwrap(read_block_model(NoPack, model_id).err).code}

\* C5: every successfully resolved model has no parent link, however many
\* ancestors were merged (zero included).
C5_ResolvedHasNoParent ==
    Resolved => is_none(unwrap(unwrap(result).val).parent)

C5_Witness ==
    /\ Resolved
    /\ Len(loaded) = 3
    /\ is_some(unwrap(loaded[1].outcome.val).parent)

\* the three models of a resolved chain requested -> middle -> root
ChainOfThree == Resolved /\ Len(loaded) = 3
ModelA == unwrap(loaded[1].outcome.val)
ModelB == unwrap(loaded[2].outcome.val)
ModelC == unwrap(loaded[3].outcome.val)

\* C6: on a chain A -> B -> C, merging (C,B) then A and merging C with (B,A)
\* give the same texture table, which is the table resolve_block_model
\* returns.
C6_MergeAssociative ==
    ChainOfThree =>
        /\ merge_models(merge_models(ModelC, ModelB), ModelA).textures
             = merge_models(ModelC, merge_models(ModelB, ModelA)).textures
        /\ unwrap(unwrap(result).val).textures
             = merge_models(ModelC, merge_models(ModelB, ModelA)).textures

C6_Witness ==
    /\ ChainOfThree
    /\ ModelA.textures = Some((SIDE :> STONE))
    /\ ModelB.textures = Some((ALL :> DIRT) @@ (SIDE :> DIRT))
    /\ ModelC.textures = Some((ALL :> STONE))
    /\ unwrap(unwrap(result).val).textures = Some((ALL :> DIRT) @@ (SIDE :> STONE))

----------------------------------------------------------------------------
(* merge_models on its own                                                 *)

ElemChoices == {None, Some(<<>>), Some(<<"cube">>), Some(<<"slab", "post">>)}
AoChoices == {None, Some(TRUE), Some(FALSE)}
MergeInputs ==
    {BlockModel(p, t, e, ao) :
        p \in {None, Some(<<"b">>)}, t \in TexChoices, e \in ElemChoices, ao \in AoChoices}

InitMerge ==
    /\ mpc = "start"
    /\ parent \in MergeInputs
    /\ child \in MergeInputs
    /\ merged = None
    /\ ResolveIdle /\ TexIdle /\ IdIdle /\ IndexIdle /\ LabelsIdle /\ BlockstateIdle /\ ReadIdle /\ CacheIdle /\ BlockIdIdle /\ FindIdle /\ CallersIdle

MergeModels ==
    /\ mpc = "start"
    /\ merged' = Some(merge_models(parent, child))
    /\ mpc' = "merged"
    /\ UNCHANGED <<parent, child>>
    /\ UNCHANGED <<resolveVars, texVars, idVars, indexVars, labelVars, blockstateVars, readVars, cacheVars, blockIdVars, findVars, callerVars>>

NextMerge == MergeModels

SpecMerge == InitMerge /\ [][NextMerge]_vars

Merged == mpc = "merged" /\ is_some(merged)

\* C3: the merged texture table has the union of both key sets, child
\* values on the child's keys and parent values on the others; with one
\* table only the result is that table, with none there is none.
C3_TexturesUnionChildWins ==
    Merged =>
        LET pt == parent.textures
            ct == child.textures
            mt == unwrap(merged).textures IN
        /\ (is_some(pt) /\ is_some(ct)) =>
              /\ is_some(mt)
              /\ DOMAIN unwrap(mt) = (DOMAIN unwrap(pt)) \cup (DOMAIN unwrap(ct))
              /\ \A k \in DOMAIN unwrap(ct) : unwrap(mt)[k] = unwrap(ct)[k]
              /\ \A k \in (DOMAIN unwrap(pt)) \ (DOMAIN unwrap(ct)) :
                    unwrap(mt)[k] = unwrap(pt)[k]
        /\ (is_some(pt) /\ is_none(ct)) => mt = pt
        /\ (is_none(pt) /\ is_some(ct)) => mt = ct
        /\ (is_none(pt) /\ is_none(ct)) => is_none(mt)

C3_Witness ==
    /\ Merged
    /\ parent.textures = Some((ALL :> DIRT) @@ (SIDE :> DIRT))
    /\ child.textures = Some((ALL :> STONE))
    /\ unwrap(merged).textures = Some((ALL :> STONE) @@ (SIDE :> DIRT))

\* C4: the merged element list is the child's list whenever the child
\* defines one and the parent's list otherwise, never a mixture.
C4_ElementsWholesale ==
    Merged =>
        /\ is_some(child.elements) => unwrap(merged).elements = child.elements
        /\ is_none(child.elements) => unwrap(merged).elements = parent.elements

C4_Witness ==
    /\ Merged
    /\ parent.elements = Some(<<"slab", "post">>)
    /\ child.elements = Some(<<"cube">>)
    /\ unwrap(merged).elements = Some(<<"cube">>)

----------------------------------------------------------------------------
(* block_models.rs: resolve_textures                                       *)

MAX_ITERATIONS == 10

HASH == <<"#">>

\* Faulty variant of loop_continues: one lookup too many
loop_continues_inclusive(current_value, iterations) ==
    starts_with(current_value, HASH) /\ iterations <= MAX_ITERATIONS

\* while current_value.starts_with('#') && iterations < MAX_ITERATIONS
loop_continues(current_value, iterations) ==
    starts_with(current_value, HASH) /\ iterations < MAX_ITERATIONS

\* Faulty variant of unresolved_value: the reference marker is lost on a miss
unresolved_value_stripped(current_value) == trim_start_matches(current_value, "#")

\* textures.get(var_name) is None: break, keeping current_value
unresolved_value(current_value) == current_value

\* the while loop for one key
RECURSIVE chase(_, _, _)
chase(textures, current_value, iterations) ==
    IF loop_continues(current_value, iterations)
    THEN LET var_name == trim_start_matches(current_value, "#") IN
         IF var_name \in DOMAIN textures
         THEN chase(textures, textures[var_name], iterations + 1)
         ELSE unresolved_value(current_value)
    ELSE current_value

resolve_textures(m) ==
    IF is_some(m.textures)
    THEN [key \in DOMAIN unwrap(m.textures) |->
             chase(unwrap(m.textures), unwrap(m.textures)[key], 0)]
    ELSE EmptyMap

ResolveTextures ==
    /\ tpc = "start"
    /\ resolved' = resolve_textures(model)
    /\ tpc' = "resolved"
    /\ UNCHANGED model
    /\ UNCHANGED <<resolveVars, mergeVars, idVars, indexVars, labelVars, blockstateVars, readVars, cacheVars, blockIdVars, findVars, callerVars>>

(* Inputs of resolve_textures *)

MaxChain == 12

BASE == <<"b","a","s","e">>
MISSING == <<"m","i","s","s","i","n","g">>
Ref(name) == HASH \o name

Digit(n) == <<"0","1","2","3","4","5","6","7","8","9">>[n + 1]
VarName(n) == IF n < 10 THEN <<"t", Digit(n)>> ELSE <<"t", Digit(n \div 10), Digit(n % 10)>>

\* t0 -> #t1 -> ... -> #t<len>, whose own value is last
ChainTable(len, last) ==
    [k \in {VarName(n) : n \in 0..len} |->
        LET n == CHOOSE j \in 0..len : VarName(j) = k IN
        IF n < len THEN Ref(VarName(n + 1)) ELSE last]

ChainTables ==
    {ChainTable(len, last) :
        len \in 0..MaxChain,
        last \in {DIRT, Ref(MISSING)} \cup {Ref(VarName(n)) : n \in 0..MaxChain}}

SmallValues == {DIRT, Ref(ALL), Ref(BASE), Ref(MISSING), HASH \o Ref(BASE)}
SmallTables == UNION {[D -> SmallValues] : D \in SUBSET {ALL, BASE}}

InitTextures ==
    /\ tpc = "start"
    /\ \E t \in {None} \cup {Some(x) : x \in ChainTables \cup SmallTables} :
          model = BlockModel(None, t, None, None)
    /\ resolved = EmptyMap
    /\ ResolveIdle /\ MergeIdle /\ IdIdle /\ IndexIdle /\ LabelsIdle /\ BlockstateIdle /\ ReadIdle /\ CacheIdle /\ BlockIdIdle /\ FindIdle /\ CallersIdle

NextTextures == ResolveTextures

SpecTextures == InitTextures /\ [][NextTextures]_vars

(* Claims about resolve_textures *)

TexturesResolved == tpc = "resolved"

IsLiteral(v) == ~starts_with(v, HASH)
\* `#name` with a name that is itself no reference
IsReference(v) == starts_with(v, HASH) /\ IsLiteral(Tail(v))

\* the value reached from v after exactly hops variable lookups, None when
\* one of them is impossible
RECURSIVE Follow(_, _, _)
Follow(t, v, hops) ==
    IF hops = 0 THEN Some(v)
    ELSE IF IsReference(v) /\ Tail(v) \in DOMAIN t
         THEN Follow(t, t[Tail(v)], hops - 1)
         ELSE None

\* C7: resolve_textures returns one entry per key; a literal stays, a
\* reference whose chain reaches a literal within the hop limit becomes that
\* literal, a reference to an absent variable stays as the `#name` string.
C7_ResolveTextures ==
    TexturesResolved =>
        IF is_none(model.textures) THEN resolved = EmptyMap
        ELSE LET t == unwrap(model.textures) IN
             /\ DOMAIN resolved = DOMAIN t
             /\ \A k \in DOMAIN t :
                  /\ IsLiteral(t[k]) => resolved[k] = t[k]
                  /\ (IsReference(t[k]) /\ Tail(t[k]) \notin DOMAIN t) => resolved[k] = t[k]
                  /\ \A h \in 1..MAX_ITERATIONS :
                        (is_some(Follow(t, t[k], h)) /\ IsLiteral(unwrap(Follow(t, t[k], h))))
                            => resolved[k] = unwrap(Follow(t, t[k], h))

C7_Witness ==
    /\ TexturesResolved
    /\ model.textures = Some((ALL :> Ref(BASE)) @@ (BASE :> DIRT))
    /\ resolved = (ALL :> DIRT) @@ (BASE :> DIRT)

\* C8: each value is chased through at most 10 lookups: a chain that gets
\* through 10 hops yields exactly the value reached by the 10th hop, a
\* shorter chain ending in a literal yields the literal, and an entry is
\* returned for every key.
C8_TenHops ==
    TexturesResolved /\ is_some(model.textures) =>
        LET t == unwrap(model.textures) IN
        /\ DOMAIN resolved = DOMAIN t
        /\ \A k \in DOMAIN t :
             /\ is_some(Follow(t, t[k], MAX_ITERATIONS))
                   => resolved[k] = unwrap(Follow(t, t[k], MAX_ITERATIONS))
             /\ \A h \in 0..MAX_ITERATIONS :
                   (is_some(Follow(t, t[k], h)) /\ IsLiteral(unwrap(Follow(t, t[k], h))))
                       => resolved[k] = unwrap(Follow(t, t[k], h))

\* a chain of 12 hops: the first key stops at the value of the 10th hop
C8_Witness ==
    /\ TexturesResolved
    /\ model.textures = Some(ChainTable(12, DIRT))
    /\ resolved[VarName(0)] = Ref(VarName(11))
    /\ resolved[VarName(2)] = DIRT

----------------------------------------------------------------------------
(* asset_indexer.rs: extract_asset_id                                      *)

ASSET_PATH_PREFIX == <<"a","s","s","e","t","s","/">>
TEXTURE_PATH == <<"t","e","x","t","u","r","e","s","/">>

\* Faulty variant of strip_extension: cut at the first dot instead of the last
strip_extension_first_dot(texture_path) ==
    LET dot_idx == find(texture_path, ".") IN
    IF is_some(dot_idx) THEN SubSeq(texture_path, 1, unwrap(dot_idx)) ELSE texture_path

\* if let Some(dot_idx) = texture_path.rfind('.') { &texture_path[..dot_idx] }
strip_extension(texture_path) ==
    LET dot_idx == rfind(texture_path, ".") IN
    IF is_some(dot_idx) THEN SubSeq(texture_path, 1, unwrap(dot_idx)) ELSE texture_path

extract_asset_id(path) ==
    IF ~starts_with(path, ASSET_PATH_PREFIX) THEN None
    ELSE LET after_assets == Skip(path, Len(ASSET_PATH_PREFIX))
             parts == splitn2(after_assets, "/") IN
         IF Len(parts) # 2 THEN None
         ELSE LET namespace == parts[1]
                  rest == parts[2] IN
              IF ~starts_with(rest, TEXTURE_PATH) THEN None
              ELSE LET texture_path == Skip(rest, Len(TEXTURE_PATH)) IN
                   Some(namespace \o <<":">> \o strip_extension(texture_path))

ExtractAssetId ==
    /\ apc = "start"
    /\ asset_id' = extract_asset_id(file_path)
    /\ apc' = "extracted"
    /\ UNCHANGED file_path
    /\ UNCHANGED <<resolveVars, mergeVars, texVars, indexVars, labelVars, blockstateVars, readVars, cacheVars, blockIdVars, findVars, callerVars>>

(* Inputs of extract_asset_id: paths assembled from parts, and the pack's  *)
(* own root files                                                          *)

MOD == <<"m","o","d">>
PathPrefixes == {ASSET_PATH_PREFIX, <<>>, <<"a","s","s","e","t","/">>, <<"d","a","t","a","/">>}
PathNamespaces == {MINECRAFT, MOD, <<>>}
PathMiddles ==
    {<<"/","t","e","x","t","u","r","e","s","/">>, <<"/","l","a","n","g","/">>, <<"/","m","o","d","e","l","s","/">>, <<"/","t","e","x","t","u","r","e","s">>, <<"/","s","u","b","/","t","e","x","t","u","r","e","s","/">>}
PathStems ==
    {<<"b","l","o","c","k","/","s","t","o","n","e">>, <<"e","n","t","i","t","y","/","z","o","m","b","i","e">>, <<"e","n","_","u","s">>, <<"a",".","b">>, <<>>}
PathExtensions ==
    {<<".","p","n","g">>, <<".","j","s","o","n">>, <<>>, <<".","p","n","g",".","m","c","m","e","t","a">>, <<".">>}
RootFiles == {<<"p","a","c","k",".","m","c","m","e","t","a">>, <<"p","a","c","k",".","p","n","g">>, <<"a","s","s","e","t","s">>, <<"a","s","s","e","t","s","/","m","i","n","e","c","r","a","f","t">>}

InputPaths ==
    RootFiles \cup
    {a \o b \o c \o d \o e :
        a \in PathPrefixes, b \in PathNamespaces, c \in PathMiddles,
        d \in PathStems, e \in PathExtensions}

InitAssetId ==
    /\ apc = "start"
    /\ file_path \in InputPaths
    /\ asset_id = None
    /\ ResolveIdle /\ MergeIdle /\ TexIdle /\ IndexIdle /\ LabelsIdle /\ BlockstateIdle /\ ReadIdle /\ CacheIdle /\ BlockIdIdle /\ FindIdle /\ CallersIdle

NextAssetId == ExtractAssetId

SpecAssetId == InitAssetId /\ [][NextAssetId]_vars

(* Claims about extract_asset_id *)

SLASH_TEXTURES == <<"/","t","e","x","t","u","r","e","s","/">>

\* path = assets/<ns>/textures/<rest> with a slash-free <ns> of length n
UnderTexturesAt(path, n) ==
    /\ starts_with(path, ASSET_PATH_PREFIX)
    /\ Len(path) >= Len(ASSET_PATH_PREFIX) + n
    /\ ~contains(SubSeq(path, Len(ASSET_PATH_PREFIX) + 1, Len(ASSET_PATH_PREFIX) + n), "/")
    /\ starts_with(Skip(path, Len(ASSET_PATH_PREFIX) + n), SLASH_TEXTURES)
UnderTextures(path) == \E n \in 0..Len(path) : UnderTexturesAt(path, n)

\* every <<ns, p>> with path = assets/<ns>/textures/<p>.<ext>, <ext> being
\* free of dots and slashes
FormDecompositions(path) ==
    {<<SubSeq(path, Len(ASSET_PATH_PREFIX) + 1, Len(ASSET_PATH_PREFIX) + n),
       SubSeq(path, Len(ASSET_PATH_PREFIX) + n + Len(SLASH_TEXTURES) + 1, d - 1)>> :
        <<n, d>> \in {nd \in (0..Len(path)) \X (1..Len(path)) :
            /\ UnderTexturesAt(path, nd[1])
            /\ nd[2] > Len(ASSET_PATH_PREFIX) + nd[1] + Len(SLASH_TEXTURES)
            /\ path[nd[2]] = "."
            /\ ~contains(Skip(path, nd[2]), ".")
            /\ ~contains(Skip(path, nd[2]), "/")}}

\* C9: assets/<ns>/textures/<p>.<ext> maps to exactly <ns>:<p>, and a path
\* not under assets/<ns>/textures/ maps to none.
C9_ExtractAssetId ==
    apc = "extracted" =>
        /\ \A f \in FormDecompositions(file_path) :
              asset_id = Some(f[1] \o <<":">> \o f[2])
        /\ ~UnderTextures(file_path) => asset_id = None

C9_Witness ==
    /\ apc = "extracted"
    /\ file_path = ASSET_PATH_PREFIX \o MINECRAFT \o SLASH_TEXTURES \o <<"b","l","o","c","k","/","s","t","o","n","e",".","p","n","g">>
    /\ asset_id = Some(MINECRAFT \o <<":","b","l","o","c","k","/","s","t","o","n","e">>)

----------------------------------------------------------------------------
(* asset_indexer.rs: index_assets                                          *)

\* A pack as the indexer sees it: listing is what the archive index or the
\* directory walk yields, in order; opens is whether the location can be
\* opened at all.
IndexedPack(id, is_zip, opens, listing) ==
    [id |-> id, is_zip |-> is_zip, opens |-> opens, listing |-> listing]

AssetRecord(id, labels, files) == [id |-> id, labels |-> labels, files |-> files]

\* byte order of the characters that occur in paths and identifiers
Alphabet ==
    <<".", "/", "0", "1", "2", "3", "4", "5", "6", "7", "8", "9", ":", "_",
      "a", "b", "c", "d", "e", "f", "g", "h", "i", "j", "k", "l", "m",
      "n", "o", "p", "q", "r", "s", "t", "u", "v", "w", "x", "y", "z">>
Ord(c) == CHOOSE n \in 1..Len(Alphabet) : Alphabet[n] = c

\* a.cmp(b) == Less on strings
RECURSIVE str_lt(_, _)
str_lt(a, b) ==
    IF Len(b) = 0 THEN FALSE
    ELSE IF Len(a) = 0 THEN TRUE
    ELSE IF a[1] = b[1] THEN str_lt(Tail(a), Tail(b))
    ELSE Ord(a[1]) < Ord(b[1])

\* zip.rs list_zip_files
list_zip_files(p) ==
    IF p.opens THEN Ok(p.listing) ELSE Err("Failed to open zip")

\* the files of a listing whose identifier is id, in listing order
FilesFor(files, id) ==
    LET maps_to_id(f) == extract_asset_id(f) = Some(id) IN SelectSeq(files, maps_to_id)

\* the per-pack map: identifier -> the files that map to it
group_by_asset_id(files) ==
    LET ids == {unwrap(extract_asset_id(files[n])) :
                   n \in {m \in 1..Len(files) : is_some(extract_asset_id(files[m]))}} IN
    [id \in ids |-> FilesFor(files, id)]

index_zip_pack(p) ==
    LET files == list_zip_files(p) IN
    IF ~files.ok THEN files ELSE Ok(group_by_asset_id(unwrap(files.val)))

\* WalkDir errors are dropped by filter_map(|e| e.ok()): a folder that cannot
\* be walked contributes no entries
index_folder_pack(p) ==
    Ok(group_by_asset_id(IF p.opens THEN p.listing ELSE <<>>))

\* Faulty variant of extract_labels: empty path components become labels too
extract_labels_keeps_empty(id) ==
    LET colon_idx == find(id, ":")
        namespace == IF is_some(colon_idx) THEN <<SubSeq(id, 1, unwrap(colon_idx))>> ELSE <<>>
        path_part == IF is_some(colon_idx) THEN Skip(id, unwrap(colon_idx) + 1) ELSE id IN
    namespace \o split(path_part, "/")

extract_labels(id) ==
    LET colon_idx == find(id, ":")
        namespace == IF is_some(colon_idx) THEN <<SubSeq(id, 1, unwrap(colon_idx))>> ELSE <<>>
        path_part == IF is_some(colon_idx) THEN Skip(id, unwrap(colon_idx) + 1) ELSE id
        not_empty(component) == component # <<>> IN
    namespace \o SelectSeq(split(path_part, "/"), not_empty)

\* for file in &files { if !record.files.contains(file) { push } }
RECURSIVE push_missing(_, _)
push_missing(record_files, files) ==
    IF files = <<>> THEN record_files
    ELSE push_missing(
            IF \E n \in 1..Len(record_files) : record_files[n] = files[1]
            THEN record_files ELSE Append(record_files, files[1]),
            Tail(files))

\* Faulty variant of push_provider: the newest provider goes to the front
push_provider_front(list, pack_id) == <<pack_id>> \o list

\* providers.entry(asset_id).or_insert_with(Vec::new).push(pack.id)
push_provider(list, pack_id) == Append(list, pack_id)

\* Faulty variant of merge_providers: only the first pack to define an
\* identifier is recorded as its provider
merge_providers_first_only(prov, pack_assets, pack_id) ==
    [id \in (DOMAIN prov) \cup (DOMAIN pack_assets) |->
        IF id \in DOMAIN prov THEN prov[id] ELSE <<pack_id>>]

merge_providers(prov, pack_assets, pack_id) ==
    [id \in (DOMAIN prov) \cup (DOMAIN pack_assets) |->
        IF id \in DOMAIN pack_assets
        THEN push_provider(IF id \in DOMAIN prov THEN prov[id] ELSE <<>>, pack_id)
        ELSE prov[id]]

merge_assets(map, pack_assets) ==
    [id \in (DOMAIN map) \cup (DOMAIN pack_assets) |->
        IF id \notin DOMAIN pack_assets THEN map[id]
        ELSE IF id \in DOMAIN map
             THEN AssetRecord(map[id].id, map[id].labels,
                              push_missing(map[id].files, pack_assets[id]))
             ELSE AssetRecord(id, extract_labels(id), pack_assets[id])]

\* Faulty variant of sorted_values: the records come out greatest id first
RECURSIVE sorted_values_descending(_)
sorted_values_descending(map) ==
    IF DOMAIN map = {} THEN <<>>
    ELSE LET greatest == CHOOSE a \in DOMAIN map : \A b \in DOMAIN map : ~str_lt(a, b) IN
         <<map[greatest]>> \o sorted_values_descending([id \in (DOMAIN map) \ {greatest} |-> map[id]])

\* assets_map.into_values().collect(), sorted by id
RECURSIVE sorted_values(_)
sorted_values(map) ==
    IF DOMAIN map = {} THEN <<>>
    ELSE LET least == CHOOSE a \in DOMAIN map : \A b \in DOMAIN map : ~str_lt(b, a) IN
         <<map[least]>> \o sorted_values([id \in (DOMAIN map) \ {least} |-> map[id]])

pack_assets_of(p) == IF p.is_zip THEN index_zip_pack(p) ELSE index_folder_pack(p)

\* one iteration of the loop over packs whose enumeration fails: `?` returns
IndexPackFails ==
    /\ ipc = "loop"
    /\ i < Len(packs)
    /\ ~pack_assets_of(packs[i + 1]).ok
    /\ index_result' = Some(Err(unwrap(pack_assets_of(packs[i + 1]).err)))
    /\ ipc' = "done"
    /\ UNCHANGED <<packs, i, assets_map, providers>>
    /\ UNCHANGED <<resolveVars, mergeVars, texVars, idVars, labelVars, blockstateVars, readVars, cacheVars, blockIdVars, findVars, callerVars>>

\* one iteration of the loop over packs
IndexPack ==
    /\ ipc = "loop"
    /\ i < Len(packs)
    /\ pack_assets_of(packs[i + 1]).ok
    /\ LET pack_assets == unwrap(pack_assets_of(packs[i + 1]).val) IN
       /\ providers' = merge_providers(providers, pack_assets, packs[i + 1].id)
       /\ assets_map' = merge_assets(assets_map, pack_assets)
    /\ i' = i + 1
    /\ UNCHANGED <<ipc, packs, index_result>>
    /\ UNCHANGED <<resolveVars, mergeVars, texVars, idVars, labelVars, blockstateVars, readVars, cacheVars, blockIdVars, findVars, callerVars>>

\* after the loop: collect, sort by id, return
IndexFinish ==
    /\ ipc = "loop"
    /\ i = Len(packs)
    /\ index_result' = Some(Ok([assets |-> sorted_values(assets_map), providers |-> providers]))
    /\ ipc' = "done"
    /\ UNCHANGED <<packs, i, assets_map, providers>>
    /\ UNCHANGED <<resolveVars, mergeVars, texVars, idVars, labelVars, blockstateVars, readVars, cacheVars, blockIdVars, findVars, callerVars>>

(* Inputs of index_assets *)

MaxPacks == 2

DIRT_PNG == ASSET_PATH_PREFIX \o MINECRAFT \o <<"/","t","e","x","t","u","r","e","s","/","d","i","r","t",".","p","n","g">>
DIRT_TGA == ASSET_PATH_PREFIX \o MINECRAFT \o <<"/","t","e","x","t","u","r","e","s","/","d","i","r","t",".","t","g","a">>
ORE_PNG == ASSET_PATH_PREFIX \o MOD \o <<"/","t","e","x","t","u","r","e","s","/","b","l","o","c","k","/","o","r","e",".","p","n","g">>
PACK_MCMETA == <<"p","a","c","k",".","m","c","m","e","t","a">>
BLOCK_ORE_PNG == ASSET_PATH_PREFIX \o MINECRAFT \o <<"/","t","e","x","t","u","r","e","s","/","b","l","o","c","k","/","o","r","e",".","p","n","g">>

Listings ==
    {<<>>, <<PACK_MCMETA, ORE_PNG>>, <<DIRT_PNG, DIRT_TGA>>,
     <<DIRT_TGA, PACK_MCMETA, DIRT_PNG>>, <<DIRT_PNG, DIRT_PNG>>, <<ORE_PNG, DIRT_PNG>>}
FolderListings == {<<DIRT_PNG>>, <<ORE_PNG, DIRT_TGA>>, <<DIRT_PNG, BLOCK_ORE_PNG>>}

\* what a pack location can look like: a readable archive, a readable
\* folder, an archive that does not open, a folder that is not there
PackShapes ==
    {[is_zip |-> TRUE, opens |-> TRUE, listing |-> l] : l \in Listings}
    \cup {[is_zip |-> FALSE, opens |-> TRUE, listing |-> l] : l \in FolderListings}
    \cup {[is_zip |-> z, opens |-> FALSE, listing |-> <<>>] : z \in BOOLEAN}

PackId(n) == <<"p", Digit(n)>>
PackIds == {PackId(n) : n \in 1..MaxPacks}

\* a pack list: the packs take their ids and their shapes by position
PackList(ids, shapes) ==
    [n \in DOMAIN ids |->
        IndexedPack(ids[n], shapes[n].is_zip, shapes[n].opens, shapes[n].listing)]

\* up to MaxPacks packs with pairwise different ids
InitIndex ==
    /\ ipc = "loop"
    /\ \E len \in 0..MaxPacks :
          \E ids \in [1..len -> PackIds], shapes \in [1..len -> PackShapes] :
              /\ \A a, b \in 1..len : a # b => ids[a] # ids[b]
              /\ packs = PackList(ids, shapes)
    /\ i = 0
    /\ assets_map = EmptyMap
    /\ providers = EmptyMap
    /\ index_result = None
    /\ ResolveIdle /\ MergeIdle /\ TexIdle /\ IdIdle /\ LabelsIdle /\ BlockstateIdle /\ ReadIdle /\ CacheIdle /\ BlockIdIdle /\ FindIdle /\ CallersIdle

NextIndex ==
    \/ IndexPackFails
    \/ IndexPack
    \/ IndexFinish

SpecIndex == InitIndex /\ [][NextIndex]_vars

(* Claims about index_assets *)

Indexed == ipc = "done" /\ is_some(index_result) /\ unwrap(index_result).ok
IndexOutput == unwrap(unwrap(index_result).val)

\* a pack contains at least one file that maps to identifier id
Defines(p, id) == \E n \in 1..Len(p.listing) : extract_asset_id(p.listing[n]) = Some(id)
AllIdentifiers == UNION {DOMAIN group_by_asset_id(l) : l \in Listings \cup FolderListings}

\* the ids of the packs defining id, in input order
ProvidersInInputOrder(id) ==
    LET defines_id(p) == Defines(p, id)
        defining == SelectSeq(packs, defines_id) IN
    [n \in 1..Len(defining) |-> defining[n].id]

\* C10: after a successful index_assets, ProviderMap[X] is exactly the ids of
\* the packs holding a file that maps to X, each once, in input order; a
\* pack that does not define X is never listed.
C10_ProvidersInScanOrder ==
    Indexed =>
        \A id \in AllIdentifiers \cup DOMAIN IndexOutput.providers :
            IF ProvidersInInputOrder(id) = <<>>
            THEN id \notin DOMAIN IndexOutput.providers
            ELSE /\ id \in DOMAIN IndexOutput.providers
                 /\ IndexOutput.providers[id] = ProvidersInInputOrder(id)

C10_Witness ==
    /\ Indexed
    /\ Len(packs) = 2
    /\ ~Defines(packs[1], MOD \o <<":","b","l","o","c","k","/","o","r","e">>)
    /\ Defines(packs[2], MOD \o <<":","b","l","o","c","k","/","o","r","e">>)
    /\ Defines(packs[1], MINECRAFT \o <<":","d","i","r","t">>)
    /\ Defines(packs[2], MINECRAFT \o <<":","d","i","r","t">>)
    /\ IndexOutput.providers[MOD \o <<":","b","l","o","c","k","/","o","r","e">>] = <<packs[2].id>>
    /\ IndexOutput.providers[MINECRAFT \o <<":","d","i","r","t">>] = <<packs[1].id, packs[2].id>>

\* no path occurs at two positions of a file list
NoDuplicates(files) == \A a, b \in 1..Len(files) : a # b => files[a] # files[b]

\* C11: in every AssetRecord returned by index_assets the file list holds no
\* path twice, for every pack list, also when the first pack to provide an
\* identifier lists the same entry path more than once and when several
\* packs provide the same relative path.
C11_FilesDuplicateFree ==
    Indexed =>
        \A n \in 1..Len(IndexOutput.assets) : NoDuplicates(IndexOutput.assets[n].files)

\* the enumeration of a pack's files fails: its location cannot be opened
EnumerationFails(p) == ~p.opens

\* C12: when the enumeration of any single pack of the input list fails
\* (archive or directory), index_assets fails as a whole: it returns an
\* error, never a result built from the packs that could be enumerated.
C12_IndexFailsAtomically ==
    (ipc = "done" /\ \E n \in 1..Len(packs) : EnumerationFails(packs[n])) =>
        /\ is_some(index_result)
        /\ ~unwrap(index_result).ok

\* the identifiers found in any pack of the input list
IdentifiersFound == {id \in AllIdentifiers : \E n \in 1..Len(packs) : Defines(packs[n], id)}

\* C20: the asset list returned by index_assets holds exactly one AssetRecord
\* per distinct identifier found in any pack, in strictly ascending
\* identifier order, whatever the order of the packs and of their listings.
C20_OneRecordPerIdSorted ==
    Indexed =>
        LET assets == IndexOutput.assets IN
        /\ {assets[n].id : n \in 1..Len(assets)} = IdentifiersFound
        /\ \A a, b \in 1..Len(assets) : a < b => str_lt(assets[a].id, assets[b].id)

\* three identifiers, met by the scan in an order that is not the sorted one
C20_Witness ==
    /\ Indexed
    /\ Len(packs) = 2
    /\ packs[1].listing = <<ORE_PNG, DIRT_PNG>>
    /\ packs[2].listing = <<DIRT_PNG, BLOCK_ORE_PNG>>
    /\ Len(IndexOutput.assets) = 3
    /\ IndexOutput.assets[1].id = MINECRAFT \o <<":","b","l","o","c","k","/","o","r","e">>
    /\ IndexOutput.assets[2].id = MINECRAFT \o <<":","d","i","r","t">>
    /\ IndexOutput.assets[3].id = MOD \o <<":","b","l","o","c","k","/","o","r","e">>

----------------------------------------------------------------------------
(* asset_indexer.rs: extract_labels                                        *)

ExtractLabels ==
    /\ lpc = "start"
    /\ label_vec' = extract_labels(label_id)
    /\ lpc' = "extracted"
    /\ UNCHANGED label_id
    /\ UNCHANGED <<resolveVars, mergeVars, texVars, idVars, indexVars, blockstateVars, readVars, cacheVars, blockIdVars, findVars, callerVars>>

(* Inputs of extract_labels *)

MaxIdLen == 5

BLOCK_STONE == MINECRAFT \o <<":","b","l","o","c","k","/","s","t","o","n","e">>

\* every string of up to MaxIdLen characters over a letter, the slash and
\* the colon, and the id of the unit test
InitLabels ==
    /\ lpc = "start"
    /\ \/ \E len \in 0..MaxIdLen : label_id \in [1..len -> {"a", "b", "/", ":"}]
       \/ label_id = BLOCK_STONE
    /\ label_vec = <<>>
    /\ ResolveIdle /\ MergeIdle /\ TexIdle /\ IdIdle /\ IndexIdle /\ BlockstateIdle /\ ReadIdle /\ CacheIdle /\ BlockIdIdle /\ FindIdle /\ CallersIdle

NextLabels == ExtractLabels

SpecLabels == InitLabels /\ [][NextLabels]_vars

(* Claims about extract_labels *)

LabelsExtracted == lpc = "extracted"

\* position of the first colon of id (1-based), 0 when there is none
FirstColon(id) ==
    IF \E n \in 1..Len(id) : id[n] = ":"
    THEN CHOOSE n \in 1..Len(id) : id[n] = ":" /\ \A m \in 1..(n - 1) : id[m] # ":"
    ELSE 0

\* the positions where a non-empty slash-free segment of path starts, and
\* the position where the segment starting at a ends
SegmentStarts(path) ==
    {a \in 1..Len(path) : path[a] # "/" /\ (a = 1 \/ path[a - 1] = "/")}
SegmentEnd(path, a) ==
    CHOOSE b \in a..Len(path) :
        /\ \A m \in a..b : path[m] # "/"
        /\ (b = Len(path) \/ path[b + 1] = "/")

\* C19: for an id with a colon, extract_labels returns exactly the namespace
\* (the text before the first colon) followed by each non-empty
\* slash-separated segment of the text after it, in their order, and
\* nothing else; "minecraft:block/stone" gives <<"minecraft", "block", "stone">>.
C19_ExtractLabels ==
    (LabelsExtracted /\ FirstColon(label_id) > 0) =>
        LET colon == FirstColon(label_id)
            path == SubSeq(label_id, colon + 1, Len(label_id))
            starts == SegmentStarts(path) IN
        /\ Len(label_vec) = 1 + Cardinality(starts)
        /\ label_vec[1] = SubSeq(label_id, 1, colon - 1)
        /\ \A a \in starts :
              label_vec[1 + Cardinality({b \in starts : b <= a})] = SubSeq(path, a, SegmentEnd(path, a))
        /\ (label_id = BLOCK_STONE =>
                label_vec = <<MINECRAFT, <<"b","l","o","c","k">>, <<"s","t","o","n","e">>>>)

\* the id of the unit test, labelled
C19_Witness ==
    /\ LabelsExtracted
    /\ label_id = BLOCK_STONE
    /\ Len(label_vec) = 3

----------------------------------------------------------------------------
(* blockstates.rs: get_default_model                                       *)

\* variants is the HashMap as the sequence of its (key, variant) entries in
\* the order iter() yields them; keys are pairwise different
Blockstate(variants, multipart) == [variants |-> variants, multipart |-> multipart]
\* Single(m) has kind "single" and the one model; Multiple(v) has kind "multiple"
BlockstateVariant(kind, models) == [kind |-> kind, models |-> models]
MultipartCase(when, apply) == [when |-> when, apply |-> apply]

EMPTY_KEY == <<>>
NORMAL == <<"n","o","r","m","a","l">>

extract_first_model(variant) ==
    IF variant.kind = "single" THEN Some(variant.models[1])
    ELSE IF variant.models = <<>> THEN None ELSE Some(variant.models[1])

\* Faulty variant of get_default_model: "normal" is tried before ""
get_default_model_normal_first(b) ==
    LET variants == IF is_some(b.variants) THEN unwrap(b.variants) ELSE <<>>
        multipart == IF is_some(b.multipart) THEN unwrap(b.multipart) ELSE <<>>
        get(key) == LET has_key(e) == e.key = key
                        hits == SelectSeq(variants, has_key) IN
                    IF hits = <<>> THEN None ELSE Some(hits[1].variant)
        unconditional(part) == is_none(part.when)
        parts == SelectSeq(multipart, unconditional) IN
    IF is_some(get(NORMAL)) THEN extract_first_model(unwrap(get(NORMAL)))
    ELSE IF is_some(get(EMPTY_KEY)) THEN extract_first_model(unwrap(get(EMPTY_KEY)))
    ELSE IF variants # <<>> THEN extract_first_model(variants[1].variant)
    ELSE IF parts # <<>> THEN extract_first_model(parts[1].apply)
    ELSE IF multipart # <<>> THEN extract_first_model(multipart[1].apply)
    ELSE None

\* an absent table and an empty one both fall through to the next step
get_default_model(b) ==
    LET variants == IF is_some(b.variants) THEN unwrap(b.variants) ELSE <<>>
        multipart == IF is_some(b.multipart) THEN unwrap(b.multipart) ELSE <<>>
        \* variants.get(key)
        get(key) == LET has_key(e) == e.key = key
                        hits == SelectSeq(variants, has_key) IN
                    IF hits = <<>> THEN None ELSE Some(hits[1].variant)
        unconditional(part) == is_none(part.when)
        parts == SelectSeq(multipart, unconditional) IN
    IF is_some(get(EMPTY_KEY)) THEN extract_first_model(unwrap(get(EMPTY_KEY)))
    ELSE IF is_some(get(NORMAL)) THEN extract_first_model(unwrap(get(NORMAL)))
    ELSE IF variants # <<>> THEN extract_first_model(variants[1].variant)
    ELSE IF parts # <<>> THEN extract_first_model(parts[1].apply)
    ELSE IF multipart # <<>> THEN extract_first_model(multipart[1].apply)
    ELSE None

GetDefaultModel ==
    /\ bpc = "start"
    /\ default_model' = get_default_model(blockstate)
    /\ bpc' = "chosen"
    /\ UNCHANGED blockstate
    /\ UNCHANGED <<resolveVars, mergeVars, texVars, idVars, indexVars, labelVars, readVars, cacheVars, blockIdVars, findVars, callerVars>>

(* Inputs of get_default_model *)

MaxCases == 2

\* variants: absent, or any number of three keys in any iteration order,
\* each a single model, a list of two or an empty list, the model names
\* telling the key and the position; multipart: absent, or up to MaxCases
\* cases with or without a condition
InitBlockstate ==
    LET variant_keys == {EMPTY_KEY, NORMAL, <<"f","a","c","i","n","g","=","n","o","r","t","h">>}
        variants_of(name) ==
            {BlockstateVariant("single", <<name \o <<"1">>>>),
             BlockstateVariant("multiple", <<name \o <<"1">>, name \o <<"2">>>>),
             BlockstateVariant("multiple", <<>>)}
        entries == UNION {{[key |-> k, variant |-> v] : v \in variants_of(k)} : k \in variant_keys}
        case_name(n) == <<"c", "a", "s", "e", Digit(n)>>
        cases_at(n) ==
            {MultipartCase(w, a) :
                w \in {None, Some("when")},
                a \in {BlockstateVariant("single", <<case_name(n) \o <<"1">>>>),
                       BlockstateVariant("multiple", <<case_name(n) \o <<"1">>, case_name(n) \o <<"2">>>>)}} IN
    /\ bpc = "start"
    /\ \E vs \in {None} \cup
              {Some(o) : o \in UNION {[1..len -> entries] : len \in 0..Cardinality(variant_keys)}} :
          /\ vs # None => \A a, b \in 1..Len(unwrap(vs)) : a # b => unwrap(vs)[a].key # unwrap(vs)[b].key
          /\ \E mp \in {None} \cup
                     {Some(o) : o \in UNION {[1..len -> UNION {cases_at(n) : n \in 1..MaxCases}] : len \in 0..MaxCases}} :
                 /\ mp # None => \A n \in 1..Len(unwrap(mp)) : unwrap(mp)[n] \in cases_at(n)
                 /\ blockstate = Blockstate(vs, mp)
    /\ default_model = None
    /\ ResolveIdle /\ MergeIdle /\ TexIdle /\ IdIdle /\ IndexIdle /\ LabelsIdle /\ ReadIdle /\ CacheIdle /\ BlockIdIdle /\ FindIdle /\ CallersIdle

NextBlockstate == GetDefaultModel

SpecBlockstate == InitBlockstate /\ [][NextBlockstate]_vars

(* Claims about get_default_model *)

DefaultChosen == bpc = "chosen"

\* the first model a variant contributes: a single model, or the first
\* element of a list
FirstModel(v) == IF v.models = <<>> THEN None ELSE Some(v.models[1])

VariantList == IF is_some(blockstate.variants) THEN unwrap(blockstate.variants) ELSE <<>>
CaseList == IF is_some(blockstate.multipart) THEN unwrap(blockstate.multipart) ELSE <<>>
HasKey(k) == \E n \in 1..Len(VariantList) : VariantList[n].key = k
VariantAt(k) == VariantList[CHOOSE n \in 1..Len(VariantList) : VariantList[n].key = k].variant
Unconditional == {n \in 1..Len(CaseList) : CaseList[n].when = None}

\* C17: get_default_model chooses by strict precedence: the "" key, else the
\* "normal" key, else the first variant in iteration order, each giving its
\* first model (a list gives its first element); multipart cases are
\* consulted only when no variant was available, and then the first case
\* without a condition is taken, else the first case.
C17_DefaultModelPrecedence ==
    DefaultChosen =>
        /\ HasKey(EMPTY_KEY) => default_model = FirstModel(VariantAt(EMPTY_KEY))
        /\ (~HasKey(EMPTY_KEY) /\ HasKey(NORMAL)) => default_model = FirstModel(VariantAt(NORMAL))
        /\ (~HasKey(EMPTY_KEY) /\ ~HasKey(NORMAL) /\ VariantList # <<>>) =>
                default_model = FirstModel(VariantList[1].variant)
        /\ (VariantList = <<>> /\ Unconditional # {}) =>
                default_model =
                    FirstModel(CaseList[CHOOSE n \in Unconditional : \A m \in Unconditional : n <= m].apply)
        /\ (VariantList = <<>> /\ Unconditional = {} /\ CaseList # <<>>) =>
                default_model = FirstModel(CaseList[1].apply)

\* "normal" comes first in the iteration order and "" still wins, with a
\* multipart list present that is not consulted
C17_Witness ==
    /\ DefaultChosen
    /\ Len(VariantList) = 3
    /\ VariantList[1].key = NORMAL
    /\ VariantList[1].variant.kind = "single"
    /\ HasKey(EMPTY_KEY)
    /\ VariantAt(EMPTY_KEY).kind = "multiple"
    /\ Unconditional # {}
    /\ default_model = Some(<<"1">>)

----------------------------------------------------------------------------
(* blockstates.rs: read_blockstate, and one read of a named entry          *)

\* a blockstate file of a pack
BlockstateFile(b) == [kind |-> "blockstate", model |-> NoModel, blockstate |-> b]

read_blockstate(p, block_id) ==
    LET relative_path == ASSETS_DIR \o MINECRAFT
                             \o <<"/","b","l","o","c","k","s","t","a","t","e","s","/">>
                             \o block_id \o DOT_JSON IN
    IF p.is_zip
    THEN LET bytes == extract_zip_entry(p, relative_path) IN
         IF ~bytes.ok THEN Err(validation("Blockstate not found in ZIP"))
         ELSE IF unwrap(bytes.val).kind = "not_utf8"
              THEN Err(validation("Invalid UTF-8 in blockstate"))
              ELSE IF unwrap(bytes.val).kind = "blockstate"
                   THEN Ok(unwrap(bytes.val).blockstate)
                   ELSE Err(validation("Invalid blockstate JSON"))
    ELSE IF ~p.opens \/ relative_path \notin DOMAIN p.files
         THEN Err(validation("Blockstate not found"))
         ELSE IF p.files[relative_path].kind \in {"unreadable", "not_utf8"}
              THEN Err(io("Failed to read blockstate file"))
              ELSE IF p.files[relative_path].kind = "blockstate"
                   THEN Ok(p.files[relative_path].blockstate)
                   ELSE Err(validation("Invalid blockstate JSON"))

ReadBlockModel ==
    /\ rpc = "start"
    /\ read_result' = Some(read_block_model(read_pack, read_id))
    /\ read_call' = "read_block_model"
    /\ rpc' = "read"
    /\ UNCHANGED <<read_pack, read_id>>
    /\ UNCHANGED <<resolveVars, mergeVars, texVars, idVars, indexVars, labelVars, blockstateVars, cacheVars, blockIdVars, findVars, callerVars>>

ReadBlockstate ==
    /\ rpc = "start"
    /\ read_result' = Some(read_blockstate(read_pack, read_id))
    /\ read_call' = "read_blockstate"
    /\ rpc' = "read"
    /\ UNCHANGED <<read_pack, read_id>>
    /\ UNCHANGED <<resolveVars, mergeVars, texVars, idVars, indexVars, labelVars, blockstateVars, cacheVars, blockIdVars, findVars, callerVars>>

(* Inputs of the read *)

\* an archive or a directory, which opens or does not; the model file and
\* the blockstate file of id a are each absent, well-formed, not JSON
\* of the kind, not UTF-8, or unreadable
InitRead ==
    LET model_path == PathOf("a")
        state_path == ASSETS_DIR \o MINECRAFT
                          \o <<"/","b","l","o","c","k","s","t","a","t","e","s","/">>
                          \o <<"a">> \o DOT_JSON
        put(path, entry) == IF entry = Absent THEN EmptyMap ELSE (path :> entry) IN
    /\ rpc = "start"
    /\ read_id \in {<<"a">>, Qualified("a")}
    /\ \E z \in BOOLEAN, o \in BOOLEAN,
          m \in {Absent, ModelFile(NoModel), Malformed, NotUtf8, Unreadable},
          b \in {Absent, BlockstateFile(Blockstate(None, None)), Malformed, NotUtf8, Unreadable} :
          read_pack = PackMeta("pack", z, o, IF o THEN put(model_path, m) @@ put(state_path, b) ELSE EmptyMap)
    /\ read_call = ""
    /\ read_result = None
    /\ ResolveIdle /\ MergeIdle /\ TexIdle /\ IdIdle /\ IndexIdle /\ LabelsIdle /\ BlockstateIdle /\ CacheIdle /\ BlockIdIdle /\ FindIdle /\ CallersIdle

NextRead ==
    \/ ReadBlockModel
    \/ ReadBlockstate

SpecRead == InitRead /\ [][NextRead]_vars

(* Claims about reading a named entry *)

ReadDone == rpc = "read"

\* the path of the entry the call reads
EntryPath ==
    IF read_call = "read_block_model" THEN model_id_to_path(normalize_model_id(read_id))
    ELSE ASSETS_DIR \o MINECRAFT \o <<"/","b","l","o","c","k","s","t","a","t","e","s","/">>
             \o read_id \o DOT_JSON

\* the pack is readable and has no entry of that name
EntryAbsent == read_pack.opens /\ EntryPath \notin DOMAIN read_pack.files

\* the archive does not open, or the entry is there and its bytes cannot be read
SourceUnreadable ==
    \/ read_pack.is_zip /\ ~read_pack.opens
    \/ /\ read_pack.opens
       /\ EntryPath \in DOMAIN read_pack.files
       /\ read_pack.files[EntryPath].kind = "unreadable"

ReadFailedWith(code) ==
    /\ is_some(read_result)
    /\ ~unwrap(read_result).ok
    /\ unwrap(unwrap(read_result).err).code = code

\* C18: reading a named entry tells its failure causes apart: an entry
\* absent from a readable pack gives a NotFound-kind error, an unreadable or
\* corrupt source gives an IOError-kind error, for archive packs and for
\* directory packs.
C18_ReadErrorKinds ==
    ReadDone =>
        /\ EntryAbsent => ReadFailedWith("NOT_FOUND")
        /\ SourceUnreadable => ReadFailedWith("IO_ERROR")

----------------------------------------------------------------------------
(* vanilla_textures.rs: the baseline cache                                 *)

\* bounds: calls made in a behaviour, entries of the JAR index
MaxCalls == 2
MaxEntries == 2

CACHE_DIR == "weaverbird/vanilla_textures"
MARKER_FILE == <<".","e","x","t","r","a","c","t","e","d","_","v","2">>

\* Faulty variant of already_extracted: the marker is never seen
marker_never_seen(c) == FALSE

\* marker_file.exists()
already_extracted(c) == MARKER_FILE \in DOMAIN c

\* Faulty variant of clean_old_cache: the old files stay
clean_keeps_files(c) == c

\* fs::remove_dir_all(&cache_dir) then fs::create_dir_all(&cache_dir)
clean_old_cache(c) == EmptyMap

\* Faulty variant of should_extract: every JSON file under assets/minecraft/ is taken
should_extract_any_json(path) ==
    \/ /\ starts_with(path, ASSETS_DIR \o MINECRAFT \o <<"/","t","e","x","t","u","r","e","s","/">>)
       /\ ends_with(path, <<".","p","n","g">>)
    \/ /\ starts_with(path, ASSETS_DIR \o MINECRAFT \o <<"/">>)
       /\ ends_with(path, DOT_JSON)

should_extract(path) ==
    \/ /\ starts_with(path, ASSETS_DIR \o MINECRAFT \o <<"/","t","e","x","t","u","r","e","s","/">>)
       /\ ends_with(path, <<".","p","n","g">>)
    \/ /\ starts_with(path, ASSETS_DIR \o MINECRAFT \o MODELS_DIR)
       /\ ends_with(path, DOT_JSON)
    \/ /\ starts_with(path, ASSETS_DIR \o MINECRAFT \o <<"/","b","l","o","c","k","s","t","a","t","e","s","/">>)
       /\ ends_with(path, DOT_JSON)

\* the first pass: (i, file_path) of every index entry to extract, i 0-based
collect_files_to_extract(entries) ==
    LET selected(n) == should_extract(entries[n].name)
        indexes == SelectSeq([n \in 1..Len(entries) |-> n], selected) IN
    [k \in 1..Len(indexes) |->
        [index |-> indexes[k] - 1, file_path |-> entries[indexes[k]].name]]

\* Faulty variant of try_for_each: a worker's error is dropped
try_for_each_drops_error(st) == Ok("unit")

\* what par_iter().try_for_each(..) returns once the workers have stopped
try_for_each(st) ==
    IF \E n \in 1..Len(st) : st[n] = "failed"
    THEN Err("Failed to read from JAR") ELSE Ok("unit")

\* entry into initialize_vanilla_textures, up to the call of extract_vanilla_textures
InitializeVanillaTextures ==
    /\ epc \in {"idle", "done"}
    /\ calls < MaxCalls
    /\ calls' = calls + 1
    /\ cache_at_call' = cache
    /\ prev_result' = extract_result
    /\ files_to_extract' = <<>> /\ status' = <<>> /\ effects' = {} /\ written' = {}
    /\ IF already_extracted(cache)
       THEN extract_result' = Some(Ok(CACHE_DIR)) /\ epc' = "done"
       ELSE IF ~jar.found
            THEN extract_result' = Some(Err("Minecraft versions directory not found")) /\ epc' = "done"
            ELSE extract_result' = None /\ epc' = "clean"
    /\ UNCHANGED <<jar, cache>>
    /\ UNCHANGED <<resolveVars, mergeVars, texVars, idVars, indexVars, labelVars, blockstateVars, readVars, blockIdVars, findVars, callerVars>>

\* entry into extract_vanilla_textures, up to the marker test
ExtractVanillaTextures ==
    /\ epc \in {"idle", "done"}
    /\ calls < MaxCalls
    /\ calls' = calls + 1
    /\ cache_at_call' = cache
    /\ prev_result' = extract_result
    /\ files_to_extract' = <<>> /\ status' = <<>> /\ effects' = {} /\ written' = {}
    /\ IF already_extracted(cache)
       THEN extract_result' = Some(Ok(CACHE_DIR)) /\ epc' = "done"
       ELSE extract_result' = None /\ epc' = "clean"
    /\ UNCHANGED <<jar, cache>>
    /\ UNCHANGED <<resolveVars, mergeVars, texVars, idVars, indexVars, labelVars, blockstateVars, readVars, blockIdVars, findVars, callerVars>>

\* clean the old cache, open the JAR, first pass over its index
CleanAndCollect ==
    /\ epc = "clean"
    /\ cache' = clean_old_cache(cache)
    /\ effects' = effects \cup {"remove_dir_all", "open_archive"}
    /\ IF ~jar.opens
       THEN /\ extract_result' = Some(Err("Failed to open Minecraft JAR file"))
            /\ epc' = "done"
            /\ UNCHANGED <<files_to_extract, status>>
       ELSE /\ files_to_extract' = collect_files_to_extract(jar.entries)
            /\ status' = [n \in 1..Len(collect_files_to_extract(jar.entries)) |-> "pending"]
            /\ epc' = "parallel"
            /\ UNCHANGED extract_result
    /\ UNCHANGED <<jar, cache_at_call, calls, written, prev_result>>
    /\ UNCHANGED <<resolveVars, mergeVars, texVars, idVars, indexVars, labelVars, blockstateVars, readVars, blockIdVars, findVars, callerVars>>

\* the try_for_each closure on one work item: File::create(output_path),
\* then the entry's bytes are read and copied, or the read fails
Worker(n) ==
    /\ epc = "parallel"
    /\ status[n] = "pending"
    /\ LET output_path == files_to_extract[n].file_path
           entry == jar.entries[files_to_extract[n].index + 1] IN
       /\ written' = written \cup {<<n, output_path>>}
       /\ cache' = (output_path :> (IF entry.ok THEN "extracted" ELSE "empty")) @@ cache
       /\ status' = [status EXCEPT ![n] = IF entry.ok THEN "extracted" ELSE "failed"]
    /\ effects' = effects \cup {"open_archive", "create_file"}
    /\ UNCHANGED <<epc, jar, cache_at_call, calls, files_to_extract, extract_result, prev_result>>
    /\ UNCHANGED <<resolveVars, mergeVars, texVars, idVars, indexVars, labelVars, blockstateVars, readVars, blockIdVars, findVars, callerVars>>

\* try_for_each returns: every item has run, or one has failed and the
\* items not yet started are dropped; then the marker is written
Join ==
    /\ epc = "parallel"
    /\ \/ \A n \in 1..Len(status) : status[n] # "pending"
       \/ \E n \in 1..Len(status) : status[n] = "failed"
    /\ IF try_for_each(status).ok
       THEN /\ cache' = (MARKER_FILE :> "extracted_v2") @@ cache
            /\ extract_result' = Some(Ok(CACHE_DIR))
       ELSE /\ extract_result' = Some(Err(unwrap(try_for_each(status).err)))
            /\ UNCHANGED cache
    /\ epc' = "done"
    /\ UNCHANGED <<jar, cache_at_call, calls, files_to_extract, status, effects, written, prev_result>>
    /\ UNCHANGED <<resolveVars, mergeVars, texVars, idVars, indexVars, labelVars, blockstateVars, readVars, blockIdVars, findVars, callerVars>>

(* Inputs of the baseline cache *)

\* the JAR: found by find_latest_version_jar or not, opening or not, with up
\* to MaxEntries index entries (a texture whose read succeeds or fails, a
\* model, a blockstate, and files that are not selected: a language file, a
\* texture's .mcmeta, another namespace's texture; a name may occur twice); the cache
\* root: empty, holding old files, or holding the marker
InitExtract ==
    LET tex == ASSETS_DIR \o MINECRAFT \o <<"/","t","e","x","t","u","r","e","s","/","a",".","p","n","g">>
        mdl == ASSETS_DIR \o MINECRAFT \o MODELS_DIR \o <<"a">> \o DOT_JSON
        lang == ASSETS_DIR \o MINECRAFT \o <<"/","l","a","n","g","/","a">> \o DOT_JSON
        old == <<"o","l","d",".","p","n","g">>
        state == ASSETS_DIR \o MINECRAFT \o <<"/","b","l","o","c","k","s","t","a","t","e","s","/","a">> \o DOT_JSON
        meta == tex \o <<".","m","c","m","e","t","a">>
        other == ASSETS_DIR \o MOD \o <<"/","t","e","x","t","u","r","e","s","/","a",".","p","n","g">>
        entry_kinds == {[name |-> tex, ok |-> TRUE], [name |-> tex, ok |-> FALSE],
                        [name |-> mdl, ok |-> TRUE], [name |-> lang, ok |-> TRUE],
                        [name |-> state, ok |-> TRUE], [name |-> meta, ok |-> TRUE],
                        [name |-> other, ok |-> TRUE]} IN
    /\ epc = "idle"
    /\ \E len \in 0..MaxEntries :
          \E es \in [1..len -> entry_kinds] :
              \E fo \in {<<TRUE, TRUE>>, <<TRUE, FALSE>>, <<FALSE, TRUE>>} :
                  jar = [found |-> fo[1], opens |-> fo[2], entries |-> es]
    /\ cache \in {EmptyMap,
                   (old :> "stale"),
                   (old :> "stale") @@ (tex :> "stale"),
                   (MARKER_FILE :> "extracted_v2") @@ (tex :> "extracted")}
    /\ cache_at_call = cache
    /\ calls = 0
    /\ files_to_extract = <<>> /\ status = <<>> /\ effects = {} /\ written = {}
    /\ extract_result = None /\ prev_result = None
    /\ ResolveIdle /\ MergeIdle /\ TexIdle /\ IdIdle /\ IndexIdle /\ LabelsIdle /\ BlockstateIdle /\ ReadIdle /\ BlockIdIdle /\ FindIdle /\ CallersIdle

NextExtract ==
    \/ InitializeVanillaTextures
    \/ ExtractVanillaTextures
    \/ CleanAndCollect
    \/ \E n \in 1..Len(status) : Worker(n)
    \/ Join

SpecExtract == InitExtract /\ [][NextExtract]_vars

(* Claims about the baseline cache *)

\* the marker was there when the running call was entered
MarkerAtCall == MARKER_FILE \in DOMAIN cache_at_call
MarkerPresent == MARKER_FILE \in DOMAIN cache
CallReturned == epc = "done" /\ is_some(extract_result)

\* the paths of the index entries the selection rule picks
SelectedPaths == {jar.entries[n].name : n \in {m \in 1..Len(jar.entries) : should_extract(jar.entries[m].name)}}

\* C13: in a call that found no marker, the marker is there only after every
\* selected entry has been extracted successfully; when a worker's
\* extraction has failed the call returns an error and the marker is absent.
C13_MarkerOnlyAfterAllExtracted ==
    ~MarkerAtCall =>
        /\ MarkerPresent =>
              /\ epc = "done"
              /\ Len(status) = Len(files_to_extract)
              /\ \A n \in 1..Len(status) : status[n] = "extracted"
              /\ \A q \in SelectedPaths : q \in DOMAIN cache /\ cache[q] = "extracted"
        /\ (epc = "done" /\ \E n \in 1..Len(status) : status[n] = "failed") =>
              /\ is_some(extract_result)
              /\ ~unwrap(extract_result).ok
              /\ ~MarkerPresent

\* a call returned an error after one worker failed and another had
\* extracted its entry: a partial cache, unmarked
C13_Witness ==
    /\ CallReturned
    /\ ~MarkerAtCall
    /\ \E n \in 1..Len(status) : status[n] = "failed"
    /\ \E n \in 1..Len(status) : status[n] = "extracted"
    /\ ~unwrap(extract_result).ok
    /\ ~MarkerPresent

\* C14: a call made while the marker is present opens no archive, deletes
\* nothing, writes no cache file and returns the cache path, the same one
\* the call before returned.
C14_IdempotentOnceMarked ==
    (CallReturned /\ MarkerAtCall) =>
        /\ effects = {}
        /\ written = {}
        /\ cache = cache_at_call
        /\ extract_result = Some(Ok(CACHE_DIR))
        /\ (is_some(prev_result) /\ unwrap(prev_result).ok) => prev_result = extract_result

\* a second call after a first one that extracted and wrote the marker
C14_Witness ==
    /\ CallReturned
    /\ MarkerAtCall
    /\ calls = 2
    /\ is_some(prev_result)
    /\ unwrap(prev_result).ok
    /\ \E q \in SelectedPaths : q \in DOMAIN cache
    /\ extract_result = prev_result

\* C15: in a call that found no marker, no cache file is written before
\* every file that was under the cache root has been deleted; after a
\* successful run the cache holds exactly the newly extracted entries and
\* the marker.
C15_CleanedBeforeWritten ==
    ~MarkerAtCall =>
        /\ written # {} =>
              /\ "remove_dir_all" \in effects
              /\ \A q \in DOMAIN cache :
                    /\ cache[q] # "stale"
                    /\ q = MARKER_FILE \/ \E w \in written : w[2] = q
        /\ (CallReturned /\ unwrap(extract_result).ok) =>
              /\ DOMAIN cache = SelectedPaths \cup {MARKER_FILE}
              /\ \A q \in SelectedPaths : cache[q] = "extracted"

\* a successful run over a cache root that held old files
C15_Witness ==
    /\ CallReturned
    /\ ~MarkerAtCall
    /\ unwrap(extract_result).ok
    /\ \E q \in DOMAIN cache_at_call : q \notin SelectedPaths
    /\ \E q \in DOMAIN cache_at_call : q \in SelectedPaths
    /\ written # {}
    /\ DOMAIN cache = SelectedPaths \cup {MARKER_FILE}

\* C16: no two work items of the parallel phase write the same output path:
\* each target file is created by exactly one worker, for every archive,
\* also one whose index lists the same entry name twice.
C16_NoTwoWorkersSamePath ==
    \A w1, w2 \in written : w1[1] # w2[1] => w1[2] # w2[2]

\* the selection rule, read off the path: assets/minecraft/<dir>/<rest> with
\* <dir> textures and <rest> ending in .png, or <dir> models or blockstates
\* and <rest> ending in .json
UnderMinecraftDir(path, dir, ext) ==
    LET prefix == <<"a","s","s","e","t","s","/","m","i","n","e","c","r","a","f","t","/">> \o dir \o <<"/">> IN
    /\ Len(path) >= Len(prefix) + Len(ext)
    /\ SubSeq(path, 1, Len(prefix)) = prefix
    /\ SubSeq(path, Len(path) - Len(ext) + 1, Len(path)) = ext
RuleSelects(path) ==
    \/ UnderMinecraftDir(path, <<"t","e","x","t","u","r","e","s">>, <<".","p","n","g">>)
    \/ UnderMinecraftDir(path, <<"m","o","d","e","l","s">>, <<".","j","s","o","n">>)
    \/ UnderMinecraftDir(path, <<"b","l","o","c","k","s","t","a","t","e","s">>, <<".","j","s","o","n">>)

\* C21: a successful extraction run materializes exactly the archive entries
\* under assets/minecraft/ that are PNG files under textures/ or JSON files
\* under models/ or blockstates/, each at its own relative path under the
\* cache root, and writes no file for any other entry.
C21_ExtractsExactlySelected ==
    (CallReturned /\ ~MarkerAtCall /\ unwrap(extract_result).ok) =>
        /\ (DOMAIN cache) \ {MARKER_FILE} =
              {jar.entries[n].name : n \in {m \in 1..Len(jar.entries) : RuleSelects(jar.entries[m].name)}}
        /\ \A w \in written : RuleSelects(w[2])
        /\ \A q \in (DOMAIN cache) \ {MARKER_FILE} : cache[q] = "extracted"

\* a successful run over an index with one selected entry and one that is not
C21_Witness ==
    /\ CallReturned
    /\ ~MarkerAtCall
    /\ unwrap(extract_result).ok
    /\ Len(jar.entries) = 2
    /\ RuleSelects(jar.entries[1].name)
    /\ ~RuleSelects(jar.entries[2].name)
    /\ Cardinality(DOMAIN cache) = 2

----------------------------------------------------------------------------
(* Further claims about resolve_block_model                                *)

\* the flag of the nearest model to id along the parent chain that specifies one
RECURSIVE NearestAo(_, _)
NearestAo(id, fuel) ==
    LET m == SpecifiedCopy(id) IN
    IF is_none(m) THEN None
    ELSE IF is_some(unwrap(m).ambientocclusion) THEN unwrap(m).ambientocclusion
    ELSE IF is_none(unwrap(m).parent) \/ fuel = 0 THEN None
    ELSE NearestAo(unwrap(unwrap(m).parent), fuel - 1)

\* C22: merging sets the ambient-occlusion flag to the child's value when the
\* child specifies one and leaves the parent's value or absence otherwise,
\* so the flag of a resolved chain is that of the nearest model to the
\* requested one that specifies it.
C22_AmbientOcclusionNearest ==
    Resolved =>
        unwrap(unwrap(result).val).ambientocclusion = NearestAo(model_id, MAX_DEPTH + 1)

\* the requested model has no flag, its parent says false, the root says true
C22_Witness ==
    /\ Resolved
    /\ Len(loaded) = 3
    /\ is_none(ModelA.ambientocclusion)
    /\ ModelB.ambientocclusion = Some(FALSE)
    /\ ModelC.ambientocclusion = Some(TRUE)
    /\ unwrap(unwrap(result).val).ambientocclusion = Some(FALSE)

\* the depth of the last model of the chain from id when the chain is
\* acyclic and every model of it exists, -1 otherwise
RECURSIVE ChainDepth(_, _)
ChainDepth(id, fuel) ==
    LET m == SpecifiedCopy(id) IN
    IF is_none(m) THEN -1
    ELSE IF is_none(unwrap(m).parent) THEN 0
    ELSE IF fuel = 0 THEN -1
    ELSE LET rest == ChainDepth(unwrap(unwrap(m).parent), fuel - 1) IN
         IF rest < 0 THEN -1 ELSE rest + 1
DeepestModel ==
    ChainDepth(model_id, Cardinality((DOMAIN pack.files) \cup (DOMAIN vanilla_pack.files)))

\* C25: on an acyclic chain in which every model exists, with the requested
\* model at depth 0, resolve_block_model succeeds exactly when no model has
\* to be loaded at a depth greater than 20 and fails with the depth error
\* exactly when a model at depth 21 or more would be needed; no model file
\* is read at a depth greater than 20.
C25_DepthLimitTwenty ==
    /\ \A n \in 1..Len(loaded) : loaded[n].depth <= 20
    /\ (Done /\ DeepestModel >= 0) =>
          /\ Resolved <=> DeepestModel <= 20
          /\ (DeepestModel >= 21) <=>
                (/\ Failed
                 /\ unwrap(unwrap(result).err) =
                        validation("Model parent chain too deep (possible circular reference)"))

\* a chain whose last model is at depth 20 has resolved after 21 loads
C25_Witness ==
    /\ Resolved
    /\ DeepestModel = 20
    /\ Len(loaded) = 21
    /\ loaded[21].depth = 20

----------------------------------------------------------------------------
(* Further claims about extract_asset_id                                   *)

\* id matches ^[^:/]+:[^:]+$
MatchesIdentifierGrammar(id) ==
    \E c \in 2..(Len(id) - 1) :
        /\ id[c] = ":"
        /\ \A n \in 1..(c - 1) : id[n] \notin {":", "/"}
        /\ \A n \in (c + 1)..Len(id) : id[n] # ":"

\* C23: every identifier the indexer produces matches the identifier grammar
\* ^[^:/]+:[^:]+$ : a non-empty namespace without colon or slash, one colon,
\* a non-empty path without colon, for every file path a pack can list.
C23_IdentifierGrammar ==
    (apc = "extracted" /\ is_some(asset_id)) => MatchesIdentifierGrammar(unwrap(asset_id))

----------------------------------------------------------------------------
(* Further claims about read_block_model_with_fallback                     *)

PackHasEntry(id) ==
    pack.opens /\ model_id_to_path(normalize_model_id(id)) \in DOMAIN pack.files

\* C24: the baseline is consulted only on a miss: whenever the active pack
\* contains an entry for the model's path, the outcome of loading the model
\* (its content, or its error when the entry is unreadable or malformed) is
\* the outcome of reading the active pack alone, never the baseline copy.
C24_BaselineOnlyOnMiss ==
    \A n \in 1..Len(loaded) :
        PackHasEntry(loaded[n].model_id)
            => loaded[n].outcome = read_block_model(pack, loaded[n].model_id)

----------------------------------------------------------------------------
(* Further claims about get_default_model                                  *)

SomeModelReference ==
    \/ \E n \in 1..Len(VariantList) : VariantList[n].variant.models # <<>>
    \/ \E n \in 1..Len(CaseList) : CaseList[n].apply.models # <<>>

\* C26: get_default_model returns none only when no model reference can be
\* determined: whenever some variant or some multipart case of the blockstate
\* carries a model reference (an empty-list "" variant beside a non-empty
\* "normal" variant or multipart case included), the result is some reference.
C26_NoneOnlyWithoutReference ==
    (DefaultChosen /\ SomeModelReference) => is_some(default_model)

----------------------------------------------------------------------------
(* Further claims about index_assets                                       *)

\* the pack with the given id lists the file
ListedBy(pack_id, file) ==
    \E n \in 1..Len(packs) :
        /\ packs[n].id = pack_id
        /\ \E m \in 1..Len(packs[n].listing) : packs[n].listing[m] = file

\* C29: the two results of index_assets are consistent: the ProviderMap keys
\* are exactly the AssetRecord ids, every provider list is non-empty, and
\* every file path of a record maps by extract_asset_id to the record's id and
\* is listed by at least one pack of that id's provider list.
C29_ResultsConsistent ==
    Indexed =>
        LET assets == IndexOutput.assets
            prov == IndexOutput.providers IN
        /\ DOMAIN prov = {assets[n].id : n \in 1..Len(assets)}
        /\ \A id \in DOMAIN prov : prov[id] # <<>>
        /\ \A n \in 1..Len(assets) : \A m \in 1..Len(assets[n].files) :
              /\ extract_asset_id(assets[n].files[m]) = Some(assets[n].id)
              /\ \E k \in 1..Len(prov[assets[n].id]) :
                    ListedBy(prov[assets[n].id][k], assets[n].files[m])

\* a record whose files come from two packs, the second adding a new path
C29_Witness ==
    /\ Indexed
    /\ Len(packs) = 2
    /\ \E n \in 1..Len(IndexOutput.assets) :
          LET a == IndexOutput.assets[n] IN
          /\ Len(IndexOutput.providers[a.id]) = 2
          /\ \E m \in 1..Len(a.files) :
                ListedBy(packs[2].id, a.files[m]) /\ ~ListedBy(packs[1].id, a.files[m])

----------------------------------------------------------------------------
(* blockstates.rs: texture_id_to_block_id                                  *)

MINECRAFT_PREFIX == MINECRAFT \o <<":">>
BLOCK_DIR == <<"b", "l", "o", "c", "k", "/">>

texture_suffixes ==
    <<<<"_", "t", "o", "p">>,
      <<"_", "b", "o", "t", "t", "o", "m">>,
      <<"_", "s", "i", "d", "e">>,
      <<"_", "f", "r", "o", "n", "t">>,
      <<"_", "b", "a", "c", "k">>,
      <<"_", "e", "n", "d">>,
      <<"_", "n", "o", "r", "t", "h">>,
      <<"_", "s", "o", "u", "t", "h">>,
      <<"_", "e", "a", "s", "t">>,
      <<"_", "w", "e", "s", "t">>,
      <<"_", "u", "p">>,
      <<"_", "d", "o", "w", "n">>,
      <<"_", "i", "n", "n", "e", "r">>,
      <<"_", "o", "u", "t", "e", "r">>,
      <<"_", "u", "p", "p", "e", "r">>,
      <<"_", "l", "o", "w", "e", "r">>,
      <<"_", "0">>,
      <<"_", "1">>,
      <<"_", "2">>,
      <<"_", "3">>,
      <<"_", "4">>,
      <<"_", "5">>>>

is_ascii_digit(c) == c \in {"0","1","2","3","4","5","6","7","8","9"}

\* str::strip_prefix
strip_prefix(s, prefix) ==
    IF starts_with(s, prefix) THEN Some(Skip(s, Len(prefix))) ELSE None

\* str::strip_suffix, taken where ends_with holds
strip_suffix(s, suffix) == SubSeq(s, 1, Len(s) - Len(suffix))

\* Faulty variant of strip_texture_suffix: the loop goes on after a match
RECURSIVE strip_texture_suffix_no_break(_, _)
strip_texture_suffix_no_break(block_id, n) ==
    IF n > Len(texture_suffixes) THEN block_id
    ELSE IF ends_with(block_id, texture_suffixes[n])
         THEN strip_texture_suffix_no_break(strip_suffix(block_id, texture_suffixes[n]), n + 1)
         ELSE strip_texture_suffix_no_break(block_id, n + 1)

\* for suffix in &texture_suffixes { if ends_with { strip; break } }, from
\* the n-th suffix on
RECURSIVE strip_texture_suffix(_, _)
strip_texture_suffix(block_id, n) ==
    IF n > Len(texture_suffixes) THEN block_id
    ELSE IF ends_with(block_id, texture_suffixes[n])
         THEN strip_suffix(block_id, texture_suffixes[n])
         ELSE strip_texture_suffix(block_id, n + 1)

\* str::trim_end_matches(|c| c.is_ascii_digit())
RECURSIVE trim_end_digits(_)
trim_end_digits(s) ==
    IF s # <<>> /\ is_ascii_digit(s[Len(s)]) THEN trim_end_digits(SubSeq(s, 1, Len(s) - 1))
    ELSE s

\* the variant-number step: taken when the last char is a digit
strip_variant_number(block_id) ==
    IF block_id # <<>> /\ is_ascii_digit(block_id[Len(block_id)]) /\ ~ends_with(block_id, <<"_">>)
    THEN trim_end_digits(block_id)
    ELSE block_id

texture_id_to_block_id(id) ==
    LET stripped == strip_prefix(id, MINECRAFT_PREFIX)
        without_namespace == IF is_some(stripped) THEN unwrap(stripped) ELSE id
        block_path == strip_prefix(without_namespace, BLOCK_DIR) IN
    IF is_some(block_path)
    THEN Some(strip_variant_number(strip_texture_suffix(unwrap(block_path), 1)))
    ELSE None

TextureIdToBlockId ==
    /\ kpc = "start"
    /\ block_id_result' = texture_id_to_block_id(texture_id)
    /\ kpc' = "mapped"
    /\ UNCHANGED texture_id
    /\ UNCHANGED <<resolveVars, mergeVars, texVars, idVars, indexVars, labelVars, blockstateVars, readVars, cacheVars, findVars, callerVars>>

(* Inputs of texture_id_to_block_id *)

\* texture ids assembled from a namespace prefix, a directory, a block name
\* and a tail of texture-part suffixes and digits
InitBlockId ==
    /\ kpc = "start"
    /\ \E ns \in {<<>>, MINECRAFT_PREFIX, MOD \o <<":">>, MINECRAFT_PREFIX \o MINECRAFT_PREFIX},
          dir \in {BLOCK_DIR, <<"i", "t", "e", "m", "/">>, <<>>},
          name \in {<<"d", "i", "r", "t">>, <<"a", "c", "a", "c", "i", "a", "_", "l", "o", "g">>, <<"a", "m", "e", "t", "h", "y", "s", "t", "_", "b", "l", "o", "c", "k">>, <<>>},
          tail \in {<<>>, <<"_", "t", "o", "p">>, <<"_", "s", "i", "d", "e", "_", "t", "o", "p">>, <<"_", "t", "o", "p", "_", "s", "i", "d", "e">>, <<"_", "0">>, <<"_", "6">>,
                    <<"1">>, <<"1", "2", "3">>, <<"_", "1", "2">>, <<"1", "_", "t", "o", "p">>, <<"_", "t", "o", "p", "1">>, <<"_">>,
                    <<"_", "t", "o", "p", "_", "t", "o", "p">>, <<"_", "1", "_", "2">>} :
          texture_id = ns \o dir \o name \o tail
    /\ block_id_result = None
    /\ ResolveIdle /\ MergeIdle /\ TexIdle /\ IdIdle /\ IndexIdle /\ LabelsIdle /\ BlockstateIdle /\ ReadIdle /\ CacheIdle /\ FindIdle /\ CallersIdle

NextBlockId == TextureIdToBlockId

SpecBlockId == InitBlockId /\ [][NextBlockId]_vars

(* Claims about texture_id_to_block_id *)

BlockIdMapped == kpc = "mapped"

\* the path of the id: what follows an optional minecraft: prefix
TexturePath ==
    IF starts_with(texture_id, MINECRAFT_PREFIX)
    THEN Skip(texture_id, Len(MINECRAFT_PREFIX)) ELSE texture_id

\* the name in block/<name>
BlockName == Skip(TexturePath, Len(BLOCK_DIR))

SuffixSet == {texture_suffixes[n] : n \in 1..Len(texture_suffixes)}

\* base is name with at most one trailing suffix of the list removed: the
\* matching one when name ends in a suffix of the list, none otherwise
SuffixRemoved(name, base) ==
    IF \E sfx \in SuffixSet : ends_with(name, sfx)
    THEN \E sfx \in SuffixSet : ends_with(name, sfx) /\ name = base \o sfx
    ELSE base = name

\* r is base with all trailing ASCII digits removed
DigitsRemoved(base, r) ==
    /\ Len(r) <= Len(base)
    /\ SubSeq(base, 1, Len(r)) = r
    /\ \A n \in (Len(r) + 1)..Len(base) : is_ascii_digit(base[n])
    /\ r = <<>> \/ ~is_ascii_digit(r[Len(r)])

----------------------------------------------------------------------------
(* vanilla_textures.rs: find_latest_version_jar                            *)

MaxVersions == 2

DOT_JAR == <<".", "j", "a", "r">>

\* a launcher root: whether <root>/versions exists, whether read_dir of it
\* succeeds, and its entries in read_dir order
SearchRoot(dir, versions_exists, readable, entries) ==
    [dir |-> dir, versions_exists |-> versions_exists, readable |-> readable,
     entries |-> entries]

\* an entry of a versions directory: its file name, whether it is a
\* directory, its modification time and the names of the files it holds
VersionEntry(name, is_dir, modified, files) ==
    [name |-> name, is_dir |-> is_dir, modified |-> modified, files |-> files]

\* version_dir.join(format!("{}.jar", version_name)) in a given root
JarPath(dir, version_name) ==
    [root |-> dir, version |-> version_name, file |-> version_name \o DOT_JAR]

\* Faulty variant of sort_by_modified: least recently modified first
RECURSIVE sort_by_modified_oldest_first(_)
sort_by_modified_oldest_first(versions) ==
    IF versions = <<>> THEN <<>>
    ELSE LET rest == sort_by_modified_oldest_first(Tail(versions))
             before == {n \in 1..Len(rest) : rest[n].modified < versions[1].modified}
             k == Cardinality(before) IN
         SubSeq(rest, 1, k) \o <<versions[1]>> \o SubSeq(rest, k + 1, Len(rest))

\* versions.sort_by(|a, b| b.modified.cmp(a.modified)): a stable sort, most
\* recently modified first, equal times keep their read_dir order
RECURSIVE sort_by_modified(_)
sort_by_modified(versions) ==
    IF versions = <<>> THEN <<>>
    ELSE LET rest == sort_by_modified(Tail(versions))
             before == {n \in 1..Len(rest) : rest[n].modified > versions[1].modified}
             k == Cardinality(before) IN
         SubSeq(rest, 1, k) \o <<versions[1]>> \o SubSeq(rest, k + 1, Len(rest))

\* for version_dir in versions { if jar_path.exists() { return Ok(jar_path) } }
RECURSIVE first_with_jar(_, _)
first_with_jar(dir, versions) ==
    IF versions = <<>> THEN Err("No Minecraft version JAR files found")
    ELSE IF (versions[1].name \o DOT_JAR) \in versions[1].files
         THEN Ok(JarPath(dir, versions[1].name))
         ELSE first_with_jar(dir, Tail(versions))

find_latest_version_jar_from_dir(mc_dir) ==
    IF ~mc_dir.versions_exists THEN Err("Minecraft versions directory not found")
    ELSE IF ~mc_dir.readable THEN Err("Failed to read versions directory")
    ELSE LET is_dir(entry) == entry.is_dir
             versions == SelectSeq(mc_dir.entries, is_dir) IN
         first_with_jar(mc_dir.dir, sort_by_modified(versions))

\* one iteration of `for path in search_paths` that finds a JAR: return it
FindInPath ==
    /\ fpc = "loop"
    /\ path_idx < Len(search_paths)
    /\ find_latest_version_jar_from_dir(search_paths[path_idx + 1]).ok
    /\ find_result' = Some(find_latest_version_jar_from_dir(search_paths[path_idx + 1]))
    /\ fpc' = "done"
    /\ UNCHANGED <<search_paths, path_idx>>
    /\ UNCHANGED <<resolveVars, mergeVars, texVars, idVars, indexVars, labelVars, blockstateVars, readVars, cacheVars, blockIdVars, callerVars>>

\* one iteration that finds none: the error is dropped, the next path is tried
SkipPath ==
    /\ fpc = "loop"
    /\ path_idx < Len(search_paths)
    /\ ~find_latest_version_jar_from_dir(search_paths[path_idx + 1]).ok
    /\ path_idx' = path_idx + 1
    /\ UNCHANGED <<fpc, search_paths, find_result>>
    /\ UNCHANGED <<resolveVars, mergeVars, texVars, idVars, indexVars, labelVars, blockstateVars, readVars, cacheVars, blockIdVars, callerVars>>

\* after the loop
InstallationNotFound ==
    /\ fpc = "loop"
    /\ path_idx = Len(search_paths)
    /\ find_result' = Some(Err("Could not find Minecraft installation"))
    /\ fpc' = "done"
    /\ UNCHANGED <<search_paths, path_idx>>
    /\ UNCHANGED <<resolveVars, mergeVars, texVars, idVars, indexVars, labelVars, blockstateVars, readVars, cacheVars, blockIdVars, callerVars>>

(* Inputs of find_latest_version_jar *)

\* the official launcher root, when get_default_minecraft_dir finds it, and
\* the two Modrinth roots; at most MaxVersions entries in all the versions
\* directories together, each a plain file, a directory holding only a JAR
\* of another name, or a directory holding the JAR named after it
InitFind ==
    LET root_dirs == <<"minecraft", "ModrinthApp/meta", "com.modrinth.theseus/meta">>
        name_of(n) == <<"v", Digit(n)>>
        entry_of(n, kind, modified) ==
            VersionEntry(name_of(n), kind # "file", modified,
                         IF kind = "file" THEN {}
                         ELSE IF kind = "own" THEN {name_of(n) \o DOT_JAR}
                         ELSE {<<"o", "t", "h", "e", "r">> \o DOT_JAR})
        roots_at(n, len) ==
            IF len = 0
            THEN {SearchRoot(root_dirs[n], FALSE, FALSE, <<>>),
                  SearchRoot(root_dirs[n], TRUE, FALSE, <<>>),
                  SearchRoot(root_dirs[n], TRUE, TRUE, <<>>)}
            ELSE {SearchRoot(root_dirs[n], TRUE, TRUE,
                             [k \in 1..len |-> entry_of(k, kinds[k], times[k])]) :
                     kinds \in [1..len -> {"file", "other", "own"}],
                     times \in [1..len -> 1..MaxVersions]} IN
    /\ fpc = "loop"
    /\ \E la \in 0..MaxVersions :
          \E lb \in 0..(MaxVersions - la) :
             \E lc \in 0..(MaxVersions - la - lb) :
                \E a \in roots_at(1, la), b \in roots_at(2, lb), c \in roots_at(3, lc),
                   default_found \in BOOLEAN :
                      search_paths = IF default_found THEN <<a, b, c>> ELSE <<b, c>>
    /\ path_idx = 0
    /\ find_result = None
    /\ ResolveIdle /\ MergeIdle /\ TexIdle /\ IdIdle /\ IndexIdle /\ LabelsIdle /\ BlockstateIdle /\ ReadIdle /\ CacheIdle /\ BlockIdIdle /\ CallersIdle

NextFind ==
    \/ FindInPath
    \/ SkipPath
    \/ InstallationNotFound

SpecFind == InitFind /\ [][NextFind]_vars

(* Claims about find_latest_version_jar *)

FindDone == fpc = "done" /\ is_some(find_result)

\* the usable versions of a root: directories holding an archive named
\* after themselves
UsableVersions(r) ==
    IF r.versions_exists /\ r.readable
    THEN {n \in 1..Len(r.entries) :
             r.entries[n].is_dir /\ (r.entries[n].name \o DOT_JAR) \in r.entries[n].files}
    ELSE {}

UsableRoots == {n \in 1..Len(search_paths) : UsableVersions(search_paths[n]) # {}}

\* C27: find_latest_version_jar returns the archive of the first search root
\* (in root order) that has a usable version, and within it the archive
\* <version>/<version>.jar of the most recently modified version directory
\* holding such an archive; directories lacking an archive named after
\* themselves are skipped; it fails only when no root has a usable version.
C27_FirstRootNewestVersion ==
    FindDone =>
        IF UsableRoots = {}
        THEN ~unwrap(find_result).ok
        ELSE LET first == CHOOSE n \in UsableRoots : \A m \in UsableRoots : n <= m
                 r == search_paths[first] IN
             /\ unwrap(find_result).ok
             /\ \E v \in UsableVersions(r) :
                   /\ \A u \in UsableVersions(r) : r.entries[u].modified <= r.entries[v].modified
                   /\ unwrap(unwrap(find_result).val) =
                         [root |-> r.dir, version |-> r.entries[v].name,
                          file |-> r.entries[v].name \o DOT_JAR]

\* the first root is unusable; in the second the older usable version is
\* listed first and the newer one is returned
C27_Witness ==
    /\ FindDone
    /\ Len(search_paths) > 1
    /\ UsableRoots = {2}
    /\ Cardinality(UsableVersions(search_paths[2])) = 2
    /\ search_paths[2].entries[1].modified < search_paths[2].entries[2].modified
    /\ unwrap(find_result).ok
    /\ unwrap(unwrap(find_result).val).version = search_paths[2].entries[2].name

----------------------------------------------------------------------------
(* vanilla_textures.rs: several callers on one cache root                  *)
(* Each caller runs initialize_vanilla_textures or extract_vanilla_textures *)
(* on its own thread; the cache root (cache) and the JAR (jar) are shared.  *)
(* The code takes no lock: a caller's steps interleave freely with the      *)
(* steps of the others.                                                     *)

MaxCallers == 2

Caller(at, work, workers, outcome) ==
    [pc |-> at, files_to_extract |-> work, status |-> workers, result |-> outcome]

\* what a return on seeing the marker met: whether every selected entry was
\* in the cache, and whether another caller was between its remove_dir_all
\* and its marker write
Observation(c, all_callers, root, entries) ==
    [caller |-> c,
     complete |-> \A n \in 1..Len(entries) :
                     should_extract(entries[n].name) =>
                        /\ entries[n].name \in DOMAIN root
                        /\ root[entries[n].name] = "extracted",
     rewriting |-> \E d \in DOMAIN all_callers : d # c /\ all_callers[d].pc = "parallel"]

\* initialize_vanilla_textures up to its call of extract_vanilla_textures
CallerInitialize(c) ==
    /\ callers[c].pc = "idle"
    /\ IF already_extracted(cache)
       THEN /\ callers' = [callers EXCEPT ![c] = Caller("done", <<>>, <<>>, Some(Ok(CACHE_DIR)))]
            /\ observed' = observed \cup {Observation(c, callers, cache, jar.entries)}
       ELSE /\ callers' = [callers EXCEPT ![c] =
                  IF jar.found THEN Caller("found", <<>>, <<>>, None)
                  ELSE Caller("done", <<>>, <<>>, Some(Err("Minecraft versions directory not found")))]
            /\ UNCHANGED observed
    /\ UNCHANGED <<jar, cache>>
    /\ UNCHANGED <<epc, cache_at_call, calls, files_to_extract, status, effects, written, extract_result, prev_result>>
    /\ UNCHANGED <<resolveVars, mergeVars, texVars, idVars, indexVars, labelVars, blockstateVars, readVars, blockIdVars, findVars>>

\* extract_vanilla_textures up to its marker test, called directly or by
\* initialize_vanilla_textures
CallerExtract(c) ==
    /\ callers[c].pc \in {"idle", "found"}
    /\ IF already_extracted(cache)
       THEN /\ callers' = [callers EXCEPT ![c] = Caller("done", <<>>, <<>>, Some(Ok(CACHE_DIR)))]
            /\ observed' = observed \cup {Observation(c, callers, cache, jar.entries)}
       ELSE /\ callers' = [callers EXCEPT ![c] = Caller("clean", <<>>, <<>>, None)]
            /\ UNCHANGED observed
    /\ UNCHANGED <<jar, cache>>
    /\ UNCHANGED <<epc, cache_at_call, calls, files_to_extract, status, effects, written, extract_result, prev_result>>
    /\ UNCHANGED <<resolveVars, mergeVars, texVars, idVars, indexVars, labelVars, blockstateVars, readVars, blockIdVars, findVars>>

\* remove_dir_all and create_dir_all of the cache root, then the first pass
CallerCleanAndCollect(c) ==
    /\ callers[c].pc = "clean"
    /\ cache' = clean_old_cache(cache)
    /\ callers' = [callers EXCEPT ![c] =
          IF ~jar.opens
          THEN Caller("done", <<>>, <<>>, Some(Err("Failed to open Minecraft JAR file")))
          ELSE Caller("parallel", collect_files_to_extract(jar.entries),
                      [n \in 1..Len(collect_files_to_extract(jar.entries)) |-> "pending"], None)]
    /\ UNCHANGED <<jar, observed>>
    /\ UNCHANGED <<epc, cache_at_call, calls, files_to_extract, status, effects, written, extract_result, prev_result>>
    /\ UNCHANGED <<resolveVars, mergeVars, texVars, idVars, indexVars, labelVars, blockstateVars, readVars, blockIdVars, findVars>>

\* the try_for_each closure of caller c on its n-th work item
CallerWorker(c, n) ==
    /\ callers[c].pc = "parallel"
    /\ callers[c].status[n] = "pending"
    /\ LET output_path == callers[c].files_to_extract[n].file_path
           entry == jar.entries[callers[c].files_to_extract[n].index + 1] IN
       /\ cache' = (output_path :> (IF entry.ok THEN "extracted" ELSE "empty")) @@ cache
       /\ callers' = [callers EXCEPT ![c].status[n] = IF entry.ok THEN "extracted" ELSE "failed"]
    /\ UNCHANGED <<jar, observed>>
    /\ UNCHANGED <<epc, cache_at_call, calls, files_to_extract, status, effects, written, extract_result, prev_result>>
    /\ UNCHANGED <<resolveVars, mergeVars, texVars, idVars, indexVars, labelVars, blockstateVars, readVars, blockIdVars, findVars>>

\* try_for_each of caller c returns; on success the marker is written
CallerJoin(c) ==
    /\ callers[c].pc = "parallel"
    /\ \/ \A n \in 1..Len(callers[c].status) : callers[c].status[n] # "pending"
       \/ \E n \in 1..Len(callers[c].status) : callers[c].status[n] = "failed"
    /\ IF try_for_each(callers[c].status).ok
       THEN /\ cache' = (MARKER_FILE :> "extracted_v2") @@ cache
            /\ callers' = [callers EXCEPT ![c].pc = "done", ![c].result = Some(Ok(CACHE_DIR))]
       ELSE /\ callers' = [callers EXCEPT ![c].pc = "done",
                              ![c].result = Some(Err(unwrap(try_for_each(callers[c].status).err)))]
            /\ UNCHANGED cache
    /\ UNCHANGED <<jar, observed>>
    /\ UNCHANGED <<epc, cache_at_call, calls, files_to_extract, status, effects, written, extract_result, prev_result>>
    /\ UNCHANGED <<resolveVars, mergeVars, texVars, idVars, indexVars, labelVars, blockstateVars, readVars, blockIdVars, findVars>>

(* Inputs: MaxCallers callers about to call, one JAR, one cache root *)

InitCallers ==
    LET tex == ASSETS_DIR \o MINECRAFT \o <<"/","t","e","x","t","u","r","e","s","/","a",".","p","n","g">>
        mdl == ASSETS_DIR \o MINECRAFT \o MODELS_DIR \o <<"a">> \o DOT_JSON
        lang == ASSETS_DIR \o MINECRAFT \o <<"/","l","a","n","g","/","a">> \o DOT_JSON
        old == <<"o","l","d",".","p","n","g">> IN
    /\ callers = [c \in 1..MaxCallers |-> Caller("idle", <<>>, <<>>, None)]
    /\ observed = {}
    /\ \E es \in {<<[name |-> tex, ok |-> TRUE], [name |-> mdl, ok |-> TRUE]>>,
                  <<[name |-> lang, ok |-> TRUE], [name |-> tex, ok |-> TRUE]>>,
                  <<[name |-> tex, ok |-> FALSE], [name |-> mdl, ok |-> TRUE]>>} :
          \E fo \in {<<TRUE, TRUE>>, <<TRUE, FALSE>>, <<FALSE, TRUE>>} :
              /\ jar = [found |-> fo[1], opens |-> fo[2], entries |-> es]
              /\ cache \in {EmptyMap, (old :> "stale"),
                            (MARKER_FILE :> "extracted_v2")
                               @@ [q \in {es[n].name : n \in {m \in 1..Len(es) : should_extract(es[m].name)}} |-> "extracted"]}
    /\ epc = "idle" /\ cache_at_call = EmptyMap /\ calls = 0
    /\ files_to_extract = <<>> /\ status = <<>> /\ effects = {} /\ written = {}
    /\ extract_result = None /\ prev_result = None
    /\ ResolveIdle /\ MergeIdle /\ TexIdle /\ IdIdle /\ IndexIdle /\ LabelsIdle /\ BlockstateIdle /\ ReadIdle /\ BlockIdIdle /\ FindIdle

NextCallers ==
    \E c \in DOMAIN callers :
        \/ CallerInitialize(c)
        \/ CallerExtract(c)
        \/ CallerCleanAndCollect(c)
        \/ \E n \in 1..Len(callers[c].status) : CallerWorker(c, n)
        \/ CallerJoin(c)

SpecCallers == InitCallers /\ [][NextCallers]_vars

(* Claims about concurrent callers *)

\* C28: under any interleaving of two or more concurrent callers of
\* initialize_vanilla_textures / extract_vanilla_textures on one cache root,
\* whenever the marker .extracted_v2 exists every selected entry is fully
\* present in the cache, and no caller sees the marker and receives the cache
\* path while another caller has deleted or is still rewriting the files.
C28_MarkerMeansComplete ==
    /\ MarkerPresent =>
          \A p \in SelectedPaths : p \in DOMAIN cache /\ cache[p] = "extracted"
    /\ \A o \in observed : o.complete /\ ~o.rewriting

====
